---- MODULE Spec2Model ----
\* Model of cursor-windsurf-convert: the mapper (src/src/mapper.ts) with the
\* two front-matter mappers, format detection, front-matter parsing and
\* serialisation, and the conversion orchestrator built from them; the
\* file-level calls convertFile and convertDirectory (src/src/index.ts) on a
\* file system; and the directory mode of the command line (src/src/cli.ts).
\*
\* Text is a sequence of one-character strings.  A JavaScript value is a record
\* [t |-> tag, v |-> characters]; an object is the sequence of its entries
\* [k |-> key characters, v |-> value] in insertion order.
EXTENDS Integers, Sequences, FiniteSets

VARIABLES pc, op, inFm, inText, inData, direction, forceFormat, filePath, out,
          mapperRun, back, reparsed,
          fs, sourcePath, destinationPath, dryRun, reverse, results

\* The variables of the file-level API (src/src/index.ts) and of the command
\* line (src/src/cli.ts): the file system, the arguments of the call, and the
\* per-file results of a directory conversion.
fileVars == <<fs, sourcePath, destinationPath, dryRun, reverse, results>>

vars == <<pc, op, inFm, inText, inData, direction, forceFormat, filePath, out,
          mapperRun, back, reparsed,
          fs, sourcePath, destinationPath, dryRun, reverse, results>>

-----------------------------------------------------------------------------
\* Bounds of the model.

\* Largest number of passthrough keys in a front-matter given to a mapper.
MaxExtraKeys == 1

-----------------------------------------------------------------------------
\* Character strings used by the program.

K_alwaysApply == <<"a","l","w","a","y","s","A","p","p","l","y">>

K_trigger == <<"t","r","i","g","g","e","r">>

K_description == <<"d","e","s","c","r","i","p","t","i","o","n">>

K_globs == <<"g","l","o","b","s">>

S_manual == <<"m","a","n","u","a","l">>

S_always_on == <<"a","l","w","a","y","s","_","o","n">>

S_model_decision == <<"m","o","d","e","l","_","d","e","c","i","s","i","o","n">>

S_glob == <<"g","l","o","b">>

S_true == <<"t","r","u","e">>

S_false == <<"f","a","l","s","e">>

S_null == <<"n","u","l","l">>

S_undefined == <<"u","n","d","e","f","i","n","e","d">>

-----------------------------------------------------------------------------
\* JavaScript values.

Str(s) == [t |-> "str", v |-> s]

Bool(b) == [t |-> "bool", v |-> IF b THEN S_true ELSE S_false]

Null == [t |-> "null", v |-> S_null]

Undefined == [t |-> "undef", v |-> S_undefined]

Num(digits) == [t |-> "num", v |-> digits]

\* ToBoolean: what `if (x)` tests.
Truthy(x) ==
  CASE x.t = "str" -> x.v # <<>>
    [] x.t = "bool" -> x.v = S_true
    [] x.t = "num" -> x.v # <<"0">>
    [] OTHER -> FALSE

\* String(x), as a template literal renders a value.
JsString(x) == x.v

-----------------------------------------------------------------------------
\* JavaScript objects with insertion-ordered own keys.

Keys(o) == {o[i].k : i \in 1..Len(o)}

Has(o, k) == \E i \in 1..Len(o) : o[i].k = k

\* o[k]: the value, or undefined for a missing key.
Get(o, k) ==
  IF Has(o, k) THEN o[CHOOSE i \in 1..Len(o) : o[i].k = k].v ELSE Undefined

\* o[k] = v: an existing key keeps its position, a new key goes last.
Set(o, k, v) ==
  IF Has(o, k)
  THEN [i \in 1..Len(o) |-> IF o[i].k = k THEN [k |-> k, v |-> v] ELSE o[i]]
  ELSE Append(o, [k |-> k, v |-> v])

\* delete o[k]
Delete(o, k) == SelectSeq(o, LAMBDA e : e.k # k)

\* Rest that keeps nothing: the `...rest` spread forgotten.
Rest_Nothing(o, ks) == <<>>

\* const { ...ks, ...rest } = o: the entries whose key is not destructured.
Rest(o, ks) == SelectSeq(o, LAMBDA e : e.k \notin ks)

-----------------------------------------------------------------------------
\* Results of a call: a returned object, a returned text, a returned format
\* name, a thrown ConversionError (code and message), or another thrown error.

NoOut ==
  [kind |-> "none", fm |-> <<>>, text |-> <<>>, format |-> "", code |-> "",
   tmpl |-> "", args |-> <<>>, issue |-> "", cause |-> ""]

RetFm(fm) == [NoOut EXCEPT !.kind = "fm", !.fm = fm]

RetText(t) == [NoOut EXCEPT !.kind = "text", !.text = t]

RetFormat(f) == [NoOut EXCEPT !.kind = "format", !.format = f]

\* new ConversionError(message, code); the message is a template and the
\* strings interpolated into it.
ConversionError(tmpl, args, code) ==
  [NoOut EXCEPT !.kind = "error", !.code = code, !.tmpl = tmpl, !.args = args]

\* A thrown error that is not a ConversionError (a TypeError of the runtime,
\* an Error of a library).
OtherError(tmpl) == [NoOut EXCEPT !.kind = "thrown", !.tmpl = tmpl]

\* A file system: the content of each path that names a file, the set of
\* directories, the paths the process may not create or write, and the order
\* in which a directory walk meets the files.
NoFs == [files |-> [p \in {} |-> <<>>], dirs |-> {}, denied |-> {}, order |-> <<>>]

\* The calls on texts and objects touch no file.
NoFileState ==
  /\ fs = NoFs
  /\ sourcePath = <<>>
  /\ destinationPath = <<>>
  /\ dryRun = FALSE
  /\ reverse = FALSE
  /\ results = <<>>

-----------------------------------------------------------------------------
\* mapCursorToWindsurf (Cursor -> Windsurf).

\* CwBranch with `if (alwaysApply)` in place of `if (alwaysApply === true)`.
CwBranch_TruthyFlag(alwaysApply, globs, description) ==
  IF Truthy(alwaysApply) THEN S_always_on
  ELSE IF Truthy(globs) THEN S_glob
  ELSE IF Truthy(description) THEN S_model_decision
  ELSE S_manual

\* CwBranch with the globs test moved in front of the alwaysApply test.
CwBranch_GlobFirst(alwaysApply, globs, description) ==
  IF Truthy(globs) THEN S_glob
  ELSE IF alwaysApply = Bool(TRUE) THEN S_always_on
  ELSE IF Truthy(description) THEN S_model_decision
  ELSE S_manual

\* CwBranch taking the glob and model_decision branches for any value but
\* undefined.
CwBranch_DefinedValue(alwaysApply, globs, description) ==
  IF alwaysApply = Bool(TRUE) THEN S_always_on
  ELSE IF globs # Undefined THEN S_glob
  ELSE IF description # Undefined THEN S_model_decision
  ELSE S_manual

\* The branch the if / else-if chain takes.
CwBranch(alwaysApply, globs, description) ==
  IF alwaysApply = Bool(TRUE) THEN S_always_on
  ELSE IF Truthy(globs) THEN S_glob
  ELSE IF Truthy(description) THEN S_model_decision
  ELSE S_manual

\* CwBuild with the always_on branch assigning description and globs without
\* testing them.
CwBuild_CopyUntested(rest, branch, description, globs) ==
  IF branch = S_always_on THEN
    Set(Set(Set(rest, K_trigger, Str(S_always_on)), K_description, description),
        K_globs, globs)
  ELSE IF branch = S_glob THEN
    LET a == Set(Set(rest, K_trigger, Str(S_glob)), K_globs, globs)
    IN IF Truthy(description) THEN Set(a, K_description, description) ELSE a
  ELSE IF branch = S_model_decision THEN
    Set(Set(rest, K_trigger, Str(S_model_decision)), K_description, description)
  ELSE Set(rest, K_trigger, Str(S_manual))

\* The object each branch constructs from the passthrough keys.
CwBuild(rest, branch, description, globs) ==
  IF branch = S_always_on THEN
    LET a == Set(rest, K_trigger, Str(S_always_on))
        b == IF Truthy(description) THEN Set(a, K_description, description) ELSE a
    IN IF Truthy(globs) THEN Set(b, K_globs, globs) ELSE b
  ELSE IF branch = S_glob THEN
    LET a == Set(Set(rest, K_trigger, Str(S_glob)), K_globs, globs)
    IN IF Truthy(description) THEN Set(a, K_description, description) ELSE a
  ELSE IF branch = S_model_decision THEN
    Set(Set(rest, K_trigger, Str(S_model_decision)), K_description, description)
  ELSE Set(rest, K_trigger, Str(S_manual))

\* The trailing clean-up shared by both mappers: description and globs are
\* deleted when they read as undefined.
DeleteUndefined(fm) ==
  LET a == IF Get(fm, K_description) = Undefined THEN Delete(fm, K_description) ELSE fm
  IN IF Get(a, K_globs) = Undefined THEN Delete(a, K_globs) ELSE a

mapCursorToWindsurf(cursorFm) ==
  LET alwaysApply == Get(cursorFm, K_alwaysApply)
      description == Get(cursorFm, K_description)
      globs == Get(cursorFm, K_globs)
      rest == Rest(cursorFm, {K_alwaysApply, K_description, K_globs})
      windsurfFm == CwBuild(rest, CwBranch(alwaysApply, globs, description),
                            description, globs)
  IN RetFm(DeleteUndefined(windsurfFm))

-----------------------------------------------------------------------------
\* mapWindsurfToCursor (Windsurf -> Cursor).

\* WcCompanion with `!== undefined` in place of the truthiness tests.
WcCompanion_Defined(trigger, description, globs) ==
  IF trigger = Str(S_glob) THEN globs # Undefined
  ELSE IF trigger = Str(S_model_decision) THEN description # Undefined
  ELSE TRUE

\* `if (globs)` of case 'glob' and `if (description)` of case 'model_decision':
\* whether the companion field the trigger requires is there.
WcCompanion(trigger, description, globs) ==
  IF trigger = Str(S_glob) THEN Truthy(globs)
  ELSE IF trigger = Str(S_model_decision) THEN Truthy(description)
  ELSE TRUE

\* WcAlwaysApply with case 'manual' assigning true.
WcAlwaysApply_ManualOn(trigger) == Bool(trigger \in {Str(S_always_on), Str(S_manual)})

\* The value each case of the switch assigns to alwaysApply.
WcAlwaysApply(trigger) == Bool(trigger = Str(S_always_on))

\* The switch on the trigger: the object so far, or the error thrown.
WcSwitch(rest, trigger, description, globs) ==
  IF trigger = Str(S_always_on) THEN RetFm(Set(rest, K_alwaysApply, WcAlwaysApply(trigger)))
  ELSE IF trigger = Str(S_manual) THEN RetFm(Set(rest, K_alwaysApply, WcAlwaysApply(trigger)))
  ELSE IF trigger = Str(S_glob) THEN
    IF WcCompanion(trigger, description, globs)
    THEN RetFm(Set(Set(rest, K_alwaysApply, WcAlwaysApply(trigger)), K_globs, globs))
    ELSE ConversionError("Windsurf 'glob' trigger missing 'globs' field.", <<>>, "E02")
  ELSE IF trigger = Str(S_model_decision) THEN
    IF WcCompanion(trigger, description, globs)
    THEN RetFm(Set(Set(rest, K_alwaysApply, WcAlwaysApply(trigger)),
                   K_description, description))
    ELSE ConversionError("Windsurf 'model_decision' trigger missing 'description' field.",
                         <<>>, "E02")
  ELSE ConversionError("Unknown Windsurf trigger type: ${trigger}",
                       <<JsString(trigger)>>, "E02")

\* WcCopy copying nothing for 'manual' and no globs for 'model_decision'.
WcCopy_PerTrigger(cursorFm, trigger, description, globs) ==
  LET a == IF Truthy(description) /\ trigger \notin {Str(S_model_decision), Str(S_manual)}
           THEN Set(cursorFm, K_description, description) ELSE cursorFm
  IN IF Truthy(globs) /\ trigger \in {Str(S_always_on)} THEN Set(a, K_globs, globs) ELSE a

\* The copy of description and globs after the switch.
WcCopy(cursorFm, trigger, description, globs) ==
  LET a == IF Truthy(description) /\ trigger # Str(S_model_decision)
           THEN Set(cursorFm, K_description, description) ELSE cursorFm
  IN IF Truthy(globs) /\ trigger # Str(S_glob) THEN Set(a, K_globs, globs) ELSE a

mapWindsurfToCursor(windsurfFm) ==
  LET trigger == Get(windsurfFm, K_trigger)
      description == Get(windsurfFm, K_description)
      globs == Get(windsurfFm, K_globs)
      rest == Rest(windsurfFm, {K_trigger, K_description, K_globs})
      switched == WcSwitch(rest, trigger, description, globs)
  IN IF switched.kind = "error" THEN switched
     ELSE RetFm(DeleteUndefined(WcCopy(switched.fm, trigger, description, globs)))

-----------------------------------------------------------------------------
\* Front-matter objects given to the mappers.

\* Marks a field left out of a generated object; never a value of an entry.
Absent == [t |-> "absent", v |-> <<>>]

S_bogus == <<"b","o","g","u","s">>

S_desc == <<"a","b">>

S_pattern == <<"*",".","t","s">>

S_v == <<"v">>

Digit(i) == <<"0","1","2","3","4","5","6","7","8","9">>[i + 1]

\* The i-th passthrough key: x1, x2, ...
ExtraKey(i) == <<"x", Digit(i)>>

AlwaysApplyChoices == {Absent, Bool(TRUE), Bool(FALSE), Str(S_true), Null}

TriggerChoices ==
  {Absent, Str(S_manual), Str(S_always_on), Str(S_glob), Str(S_model_decision),
   Str(S_bogus), Null}

DescriptionChoices == {Absent, Str(S_desc), Str(<<>>), Null, Undefined}

GlobsChoices == {Absent, Str(S_pattern), Str(<<>>), Null}

ExtraChoices == {Str(S_v), Null}

Reverse(s) == [i \in 1..Len(s) |-> s[Len(s) + 1 - i]]

\* The object with the chosen fields and passthrough values xs, in the order
\* alwaysApply, trigger, description, globs, x1, ... or in the reverse order.
MakeFm(a, t, d, g, xs, reversed) ==
  LET all == <<[k |-> K_alwaysApply, v |-> a], [k |-> K_trigger, v |-> t],
               [k |-> K_description, v |-> d], [k |-> K_globs, v |-> g]>>
             \o [i \in 1..Len(xs) |-> [k |-> ExtraKey(i), v |-> xs[i]]]
      kept == SelectSeq(all, LAMBDA e : e.v # Absent)
  IN IF reversed THEN Reverse(kept) ELSE kept

ExtraValues == UNION {[1..n -> ExtraChoices] : n \in 0..MaxExtraKeys}

FrontMatters ==
  {MakeFm(a, t, d, g, xs, r) :
     a \in AlwaysApplyChoices, t \in TriggerChoices, d \in DescriptionChoices,
     g \in GlobsChoices, xs \in ExtraValues, r \in BOOLEAN}

\* Nothing has been parsed yet.
NoParse ==
  [kind |-> "none",
   data |-> [kind |-> "undefined", fm |-> <<>>, sv |-> Undefined, line |-> 0, msg |-> ""],
   content |-> <<>>, err |-> NoOut]

\* No pre-parsed front-matter was passed.
NoData == [given |-> FALSE, fm |-> <<>>]

-----------------------------------------------------------------------------
\* The mappers called directly on a front-matter object.

MapInit ==
  /\ pc = "start"
  /\ op = "none"
  /\ inFm \in FrontMatters
  /\ inText = <<>>
  /\ inData = NoData
  /\ direction = "cw"
  /\ forceFormat = ""
  /\ filePath = <<>>
  /\ out = NoOut
  /\ mapperRun = "none"
  /\ back = NoOut
  /\ reparsed = NoParse
  /\ NoFileState

CallMapCursorToWindsurf ==
  /\ pc = "start"
  /\ pc' = "done"
  /\ op' = "mapCursorToWindsurf"
  /\ out' = mapCursorToWindsurf(inFm)
  /\ mapperRun' = "mapCursorToWindsurf"
  /\ UNCHANGED <<inFm, inText, inData, direction, forceFormat, filePath, back, reparsed>>
  /\ UNCHANGED fileVars

CallMapWindsurfToCursor ==
  /\ pc = "start"
  /\ pc' = "done"
  /\ op' = "mapWindsurfToCursor"
  /\ out' = mapWindsurfToCursor(inFm)
  /\ mapperRun' = "mapWindsurfToCursor"
  /\ UNCHANGED <<inFm, inText, inData, direction, forceFormat, filePath, back, reparsed>>
  /\ UNCHANGED fileVars

\* mapWindsurfToCursor(<the front-matter mapCursorToWindsurf returned>)
CallMapBack ==
  /\ pc = "done"
  /\ op = "mapCursorToWindsurf"
  /\ out.kind = "fm"
  /\ pc' = "back"
  /\ back' = mapWindsurfToCursor(out.fm)
  /\ UNCHANGED <<op, inFm, inText, inData, direction, forceFormat, filePath, out, mapperRun,
                 reparsed>>
  /\ UNCHANGED fileVars

MapNext == CallMapCursorToWindsurf \/ CallMapWindsurfToCursor \/ CallMapBack

SpecMap == MapInit /\ [][MapNext]_vars

-----------------------------------------------------------------------------
\* Properties of the mappers, checked under SpecMap.

CwDone == pc = "done" /\ op = "mapCursorToWindsurf"

WcDone == pc = "done" /\ op = "mapWindsurfToCursor"

\* A field is present when it holds a non-empty value: a missing key, an
\* undefined or null value and the empty string all count as no value.
Present(fm, k) == Truthy(Get(fm, k))

KnownTriggers == {Str(S_manual), Str(S_always_on), Str(S_model_decision), Str(S_glob)}

\* The description and globs of the result are the source's where the source
\* has them and missing where it has not.
CopiedWherePresent(src, res) ==
  \A k \in {K_description, K_globs} :
    IF Present(src, k) THEN Has(res, k) /\ Get(res, k) = Get(src, k) ELSE ~Has(res, k)

C2_AlwaysApplyFromTrigger ==
  (WcDone /\ out.kind = "fm") =>
    /\ Has(out.fm, K_alwaysApply)
    /\ Get(out.fm, K_alwaysApply).t = "bool"
    /\ Get(out.fm, K_alwaysApply) = Bool(TRUE) <=> Get(inFm, K_trigger) = Str(S_always_on)
    /\ Get(inFm, K_trigger) \in {Str(S_manual), Str(S_glob), Str(S_model_decision)}
         => Get(out.fm, K_alwaysApply) = Bool(FALSE)
    /\ ~Has(out.fm, K_trigger)

\* A successful call on trigger manual whose source carried alwaysApply: true.
C2_Witness ==
  /\ WcDone
  /\ out.kind = "fm"
  /\ Get(inFm, K_trigger) = Str(S_manual)
  /\ Get(inFm, K_alwaysApply) = Bool(TRUE)
  /\ Get(out.fm, K_alwaysApply) = Bool(FALSE)

\* C3: mapWindsurfToCursor throws if and only if the trigger is glob without
\* globs, model_decision without description, or not one of the four known
\* triggers; what it throws is a ConversionError with code E02.
C3_FailsExactlyWhen ==
  WcDone =>
    /\ out.kind \in {"fm", "error"}
    /\ out.kind = "error" <=>
         \/ Get(inFm, K_trigger) = Str(S_glob) /\ ~Present(inFm, K_globs)
         \/ Get(inFm, K_trigger) = Str(S_model_decision) /\ ~Present(inFm, K_description)
         \/ Get(inFm, K_trigger) \notin KnownTriggers
    /\ out.kind = "error" => out.code = "E02"

\* A glob trigger whose globs key is there but empty is rejected.
C3_Witness ==
  /\ WcDone
  /\ Get(inFm, K_trigger) = Str(S_glob)
  /\ Has(inFm, K_globs)
  /\ out.kind = "error"
  /\ out.code = "E02"

SourceFields(o) ==
  IF o = "mapCursorToWindsurf" THEN {K_alwaysApply, K_description, K_globs}
  ELSE {K_trigger, K_description, K_globs}

\* The activation key a mapper writes into its result.
TargetKey(o) == IF o = "mapCursorToWindsurf" THEN K_trigger ELSE K_alwaysApply

\* C6 as stated: every source key that is not a field of the source dialect is
\* in the result with the same value, a trigger key of a Cursor source and an
\* alwaysApply key of a Windsurf source included.
C6_AsStated ==
  (pc = "done" /\ out.kind = "fm") =>
    \A k \in Keys(inFm) \ SourceFields(op) :
      Has(out.fm, k) /\ Get(out.fm, k) = Get(inFm, k)

\* C6: every source key that is neither a field of the source dialect nor the
\* activation key of the target dialect is in the result with the same value;
\* the target's activation key holds the mapped value whatever the source had
\* under that name.
C6_PassthroughExceptTargetKey ==
  (pc = "done" /\ out.kind = "fm") =>
    /\ \A k \in Keys(inFm) \ (SourceFields(op) \cup {TargetKey(op)}) :
         Has(out.fm, k) /\ Get(out.fm, k) = Get(inFm, k)
    /\ op = "mapCursorToWindsurf" => Get(out.fm, K_trigger) \in KnownTriggers
    /\ op = "mapWindsurfToCursor" => Get(out.fm, K_alwaysApply).t = "bool"

\* A Cursor source with a passthrough key and a trigger key of its own: the
\* passthrough key is kept and the trigger is replaced.
C6_Witness ==
  /\ CwDone
  /\ Has(inFm, ExtraKey(1))
  /\ Get(out.fm, ExtraKey(1)) = Get(inFm, ExtraKey(1))
  /\ Get(inFm, K_trigger) = Str(S_bogus)
  /\ Get(out.fm, K_trigger) # Str(S_bogus)

-----------------------------------------------------------------------------
\* Strings: JavaScript string operations on sequences of characters.  Indices
\* are the 0-based indices of JavaScript.

S_delim == <<"-","-","-">>

S_close == <<"\n","-","-","-">>

S_yaml == <<"y","a","m","l">>

S_yml == <<"y","m","l">>

\* \s of a regular expression, String.prototype.trim
IsWs(c) == c \in {" ", "\t", "\n", "\r"}

MinOf(S) == CHOOSE i \in S : \A j \in S : i <= j

MaxOf(S) == CHOOSE i \in S : \A j \in S : j <= i

\* t.slice(a)
SliceFrom(t, a) == SubSeq(t, a + 1, Len(t))

\* t.slice(0, b) / t.substring(0, b)
SliceTo(t, b) == SubSeq(t, 1, b)

\* t.startsWith(p, i)
MatchAt(t, p, i) == i + Len(p) <= Len(t) /\ \A j \in 1..Len(p) : t[i + j] = p[j]

\* t.indexOf(p), -1 when p does not occur
IndexOf(t, p) ==
  LET hits == {i \in 0..(Len(t) - Len(p)) : MatchAt(t, p, i)}
  IN IF hits = {} THEN -1 ELSE MinOf(hits)

\* t.includes(p)
Includes(t, p) == \E i \in 0..(Len(t) - Len(p)) : MatchAt(t, p, i)

TrimStart(t) ==
  LET solid == {i \in 1..Len(t) : ~IsWs(t[i])}
  IN IF solid = {} THEN <<>> ELSE SubSeq(t, MinOf(solid), Len(t))

TrimEnd(t) ==
  LET solid == {i \in 1..Len(t) : ~IsWs(t[i])}
  IN IF solid = {} THEN <<>> ELSE SubSeq(t, 1, MaxOf(solid))

\* t.trim()
Trim(t) == TrimStart(TrimEnd(t))

RECURSIVE SplitLines(_)
\* t.split('\n')
SplitLines(t) ==
  LET i == IndexOf(t, <<"\n">>)
  IN IF i = -1 THEN <<t>> ELSE <<SliceTo(t, i)>> \o SplitLines(SliceFrom(t, i + 1))

RECURSIVE JoinLines(_)
\* lines.join('\n')
JoinLines(ls) ==
  IF Len(ls) = 0 THEN <<>>
  ELSE IF Len(ls) = 1 THEN ls[1]
  ELSE ls[1] \o <<"\n">> \o JoinLines(Tail(ls))

RECURSIVE ReplaceAll(_, _, _)
\* t.replace(/p/g, r) for a literal p
ReplaceAll(t, p, r) ==
  LET i == IndexOf(t, p)
  IN IF i = -1 THEN t
     ELSE SliceTo(t, i) \o r \o ReplaceAll(SliceFrom(t, i + Len(p)), p, r)

RECURSIVE Decimal(_)
\* String(n) for a natural number
Decimal(n) == IF n < 10 THEN <<Digit(n)>> ELSE Decimal(n \div 10) \o <<Digit(n % 10)>>

-----------------------------------------------------------------------------
\* yaml.load of js-yaml under JSON_SCHEMA, for the documents a front-matter
\* block holds here: unindented lines that are blank, a comment, `key: value`
\* with a plain or quoted scalar, or a scalar without a key.  (Indented lines,
\* flow collections, block scalars, tags and anchors do not occur in the
\* texts of this model.)

IsDigit(c) == c \in {"0","1","2","3","4","5","6","7","8","9"}

\* The result of a load: an object, a scalar, undefined (an empty document) or
\* a YAMLException with its message and mark.line.
YamlObject(fm) == [kind |-> "object", fm |-> fm, sv |-> Undefined, line |-> 0, msg |-> ""]

YamlScalar(v) == [kind |-> "scalar", fm |-> <<>>, sv |-> v, line |-> 0, msg |-> ""]

YamlUndefined == [kind |-> "undefined", fm |-> <<>>, sv |-> Undefined, line |-> 0, msg |-> ""]

YamlException(msg, line) ==
  [kind |-> "error", fm |-> <<>>, sv |-> Undefined, line |-> line, msg |-> msg]

\* A number without its leading zeros.
RECURSIVE Canonical(_)
Canonical(ds) == IF Len(ds) > 1 /\ ds[1] = "0" THEN Canonical(Tail(ds)) ELSE ds

\* The implicit type of a plain scalar: null, bool, int, otherwise a string.
ResolvePlain(p) ==
  IF p \in {<<>>, <<"~">>, S_null, <<"N","u","l","l">>, <<"N","U","L","L">>} THEN Null
  ELSE IF p \in {S_true, <<"T","r","u","e">>, <<"T","R","U","E">>} THEN Bool(TRUE)
  ELSE IF p \in {S_false, <<"F","a","l","s","e">>, <<"F","A","L","S","E">>} THEN Bool(FALSE)
  ELSE IF \A i \in 1..Len(p) : IsDigit(p[i]) THEN Num(Canonical(p))
  ELSE Str(p)

\* What may follow a node on its line: nothing, or white space and a comment.
OnlyComment(rest) ==
  \/ TrimStart(rest) = <<>>
  \/ IsWs(rest[1]) /\ TrimStart(rest)[1] = "#"

RECURSIVE ClosingQuote(_, _, _)
\* The 1-based position of the quote closing the quoted scalar that opens at
\* position 1 of t, 0 when it is not closed; a doubled single quote is an
\* escaped quote.
ClosingQuote(t, q, i) ==
  IF i > Len(t) THEN 0
  ELSE IF t[i] # q THEN ClosingQuote(t, q, i + 1)
  ELSE IF q = "'" /\ i < Len(t) /\ t[i + 1] = "'" THEN ClosingQuote(t, q, i + 2)
  ELSE i

\* A scalar at the start of t: ok, its value, what follows it on the line, and
\* the message when it cannot be read.
ReadScalar(t) ==
  IF t = <<>> THEN [ok |-> TRUE, v |-> Null, rest |-> <<>>, msg |-> "", none |-> TRUE]
  ELSE IF t[1] \in {"'", "\""} THEN
    LET c == ClosingQuote(t, t[1], 2)
        inner == SubSeq(t, 2, c - 1)
    IN IF c = 0
       THEN [ok |-> FALSE, v |-> Null, rest |-> <<>>, none |-> FALSE,
             msg |-> "unexpected end of the stream within a quoted scalar"]
       ELSE [ok |-> TRUE, rest |-> SubSeq(t, c + 1, Len(t)), msg |-> "", none |-> FALSE,
             v |-> Str(IF t[1] = "'" THEN ReplaceAll(inner, <<"'", "'">>, <<"'">>) ELSE inner)]
  ELSE IF t[1] = "*" THEN
    [ok |-> FALSE, v |-> Null, rest |-> <<>>, msg |-> "unidentified alias", none |-> FALSE]
  ELSE IF t[1] \in {"-", "?"} /\ (Len(t) = 1 \/ IsWs(t[2])) THEN
    [ok |-> FALSE, v |-> Null, rest |-> <<>>, none |-> FALSE,
     msg |-> "bad indentation of a sequence entry"]
  ELSE
    LET stops == {i \in 1..Len(t) :
                    \/ t[i] = ":" /\ (i = Len(t) \/ IsWs(t[i + 1]))
                    \/ t[i] = "#" /\ i > 1 /\ IsWs(t[i - 1])}
        end == IF stops = {} THEN Len(t) ELSE MinOf(stops) - 1
        plain == TrimEnd(SubSeq(t, 1, end))
    IN [ok |-> TRUE, v |-> ResolvePlain(plain), msg |-> "", none |-> plain = <<>>,
        rest |-> SubSeq(t, Len(plain) + 1, Len(t))]

\* One line of a block mapping: skip (blank or comment), pair (key and value),
\* bare (a scalar with no colon after it) or error.
YamlLine(raw) ==
  LET skip == [kind |-> "skip", k |-> <<>>, v |-> Null, msg |-> "", plain |-> FALSE]
      err(m) == [kind |-> "error", k |-> <<>>, v |-> Null, msg |-> m, plain |-> FALSE]
      pair(key, val) ==
        IF ~val.ok THEN err(val.msg)
        ELSE IF ~OnlyComment(val.rest) THEN err("bad indentation of a mapping entry")
        ELSE [kind |-> "pair", k |-> JsString(key.v), v |-> val.v, msg |-> "",
              plain |-> FALSE]
      entry(line, key, after) ==
        IF ~key.ok THEN err(key.msg)
        ELSE IF OnlyComment(key.rest) THEN
          [kind |-> "bare", k |-> <<>>, v |-> key.v, msg |-> "",
           plain |-> line[1] \notin {"'", "\""}]
        ELSE IF after[1] # ":" \/ key.none THEN err("bad indentation of a mapping entry")
        ELSE pair(key, ReadScalar(TrimStart(Tail(after))))
      keyed(line, key) == entry(line, key, TrimStart(key.rest))
      read(line) ==
        IF line = <<>> \/ TrimStart(line)[1] = "#" THEN skip
        ELSE IF IsWs(line[1]) THEN err("bad indentation of a mapping entry")
        ELSE keyed(line, ReadScalar(line))
  IN read(TrimEnd(raw))

RECURSIVE JoinWords(_)
\* The non-empty lines of a folded plain scalar, joined by single spaces.
JoinWords(ls) ==
  IF Len(ls) = 0 THEN <<>>
  ELSE LET rest == JoinWords(Tail(ls))
       IN IF ls[1] = <<>> THEN rest
          ELSE IF rest = <<>> THEN ls[1]
          ELSE ls[1] \o <<" ">> \o rest

RECURSIVE LoadLines(_, _, _)
\* The lines from the i-th on, read into the mapping acc.
LoadLines(items, i, acc) ==
  IF i > Len(items) THEN
    IF \E j \in 1..Len(items) : items[j].kind = "pair" THEN YamlObject(acc) ELSE YamlUndefined
  ELSE IF items[i].kind = "skip" THEN LoadLines(items, i + 1, acc)
  ELSE IF items[i].kind = "error" THEN YamlException(items[i].msg, i - 1)
  ELSE IF items[i].kind = "bare" THEN
    YamlException("can not read an implicit mapping pair; a colon is missed", i - 1)
  ELSE IF Has(acc, items[i].k) THEN YamlException("duplicated mapping key", i - 1)
  ELSE LoadLines(items, i + 1, Append(acc, [k |-> items[i].k, v |-> items[i].v]))

\* yaml.load(text, { schema: JSON_SCHEMA })
YamlLoad(text) ==
  LET document(lines, items, solid) ==
        LET first == MinOf(solid)
        IN IF solid # {} /\ items[first].kind = "bare" THEN
             \* a document that opens with a scalar is that scalar, and nothing
             \* may follow
             IF solid = {first} THEN YamlScalar(items[first].v)
             ELSE IF \A i \in solid : items[i].kind = "bare" /\ items[i].plain
               THEN YamlScalar(Str(JoinWords([i \in 1..Len(lines) |->
                                     IF i \in solid THEN JsString(items[i].v) ELSE <<>>])))
             ELSE YamlException("end of the stream or a document separator is expected",
                                MinOf(solid \ {first}) - 1)
           ELSE LoadLines(items, 1, <<>>)
      itemised(lines, items) ==
        document(lines, items, {i \in 1..Len(items) : items[i].kind # "skip"})
      split(lines) == itemised(lines, [i \in 1..Len(lines) |-> YamlLine(lines[i])])
  IN split(SplitLines(text))

-----------------------------------------------------------------------------
\* parseRuleFileContent: gray-matter with the custom YAML engine.

S_globsColon == K_globs \o <<":">>

\* globRegex.exec(raw): the first match of
\*   /^(globs:\s*)(?!['"])([^#\n][^\n]*?)\s*$/m
\* as [found, from, start, stop, end]: the match is raw[from..end), group 1 is
\* raw[from..start) and group 2 is raw[start..stop).
GlobRegexAt(raw, p) ==
  LET \* the first character from i on that is not white space, or the end
      Solid(i) ==
        LET solid == {j \in i..(Len(raw) - 1) : ~IsWs(raw[j + 1])}
        IN IF solid = {} THEN Len(raw) ELSE MinOf(solid)
      LineEnd(i) ==
        LET nl == {j \in i..(Len(raw) - 1) : raw[j + 1] = "\n"}
        IN IF nl = {} THEN Len(raw) ELSE MinOf(nl)
      \* the closing \s* is greedy up to the last end of line it can reach
      closing(start, stop, runEnd) ==
        [found |-> TRUE, from |-> p, start |-> start, stop |-> stop,
         end |-> MaxOf({m \in stop..runEnd : m = Len(raw) \/ raw[m + 1] = "\n"})]
      stopped(start, stop) == closing(start, stop, Solid(stop))
      \* [^\n]*? is lazy: group 2 stops as soon as only white space is left
      group2(start, inked) ==
        stopped(start, IF inked = {} THEN start + 1 ELSE MaxOf(inked) + 1)
      line(start, lineEnd) ==
        group2(start, {i \in (start + 1)..(lineEnd - 1) : ~IsWs(raw[i + 1])})
      \* \s* is greedy and gives characters back until group 2 can start
      group1(starts) ==
        IF starts = {}
        THEN [found |-> FALSE, from |-> p, start |-> 0, stop |-> 0, end |-> 0]
        ELSE line(MaxOf(starts), LineEnd(MaxOf(starts)))
      space(q, wsEnd) ==
        group1({r \in q..wsEnd : r < Len(raw) /\ raw[r + 1] \notin {"'", "\"", "#", "\n"}})
      head(q) == space(q, Solid(q))
  IN head(p + Len(S_globsColon))

GlobRegexExec(raw) ==
  LET first(heads) ==
        IF heads = {}
        THEN [found |-> FALSE, from |-> 0, start |-> 0, stop |-> 0, end |-> 0]
        ELSE GlobRegexAt(raw, MinOf(heads))
  IN first({p \in 0..(Len(raw) - Len(S_globsColon)) :
              /\ p = 0 \/ raw[p] = "\n"
              /\ MatchAt(raw, S_globsColon, p)
              /\ GlobRegexAt(raw, p).found})

\* /[*:{}[\],]/.test(v)
HasSpecialChars(v) == \E i \in 1..Len(v) : v[i] \in {"*", ":", "{", "}", "[", "]", ","}

\* startsWith / endsWith a quote of the same kind
IsQuoted(v) ==
  /\ v # <<>>
  /\ \/ v[1] = "'" /\ v[Len(v)] = "'"
     \/ v[1] = "\"" /\ v[Len(v)] = "\""

\* The glob value the engine quotes for the parser and restores afterwards;
\* <<>> when it quotes nothing.
OriginalUnquotedGlobValue(raw) ==
  LET unquoted(found, globValue) ==
        IF found /\ ~IsQuoted(globValue) /\ HasSpecialChars(globValue) THEN globValue
        ELSE <<>>
      matched(m) == unquoted(m.found, Trim(SubSeq(raw, m.start + 1, m.stop)))
  IN matched(GlobRegexExec(raw))

\* rawFrontMatterString.replace(globRegex, `$1${quotedGlobValue}`)
ProcessedFrontMatter(raw) ==
  LET replaced(m, globValue) ==
        IF globValue = <<>> THEN raw
        ELSE SubSeq(raw, 1, m.start)
             \o <<"'">> \o ReplaceAll(globValue, <<"'">>, <<"'", "'">>) \o <<"'">>
             \o SubSeq(raw, m.end + 1, Len(raw))
  IN replaced(GlobRegexExec(raw), OriginalUnquotedGlobValue(raw))

\* parsedData || {}
OrEmptyObject(y) ==
  IF y.kind = "undefined" THEN YamlObject(<<>>)
  ELSE IF y.kind = "scalar" /\ ~Truthy(y.sv) THEN YamlObject(<<>>)
  ELSE y

\* customYamlEngine: quote an unquoted glob, load, restore the glob.
customYamlEngine(raw) ==
  LET restored(original, parsed) ==
        IF original # <<>> /\ parsed.kind = "object" /\ Truthy(Get(parsed.fm, K_globs))
        THEN YamlObject(Set(parsed.fm, K_globs, Str(original)))
        ELSE parsed
  IN OrEmptyObject(restored(OriginalUnquotedGlobValue(raw), YamlLoad(ProcessedFrontMatter(raw))))

\* dummyYamlParse of serializeRuleFile: a load that turns errors and
\* non-objects into {}.  (The default schema and JSON_SCHEMA read the scalars
\* of this model alike.)
dummyYamlParse(raw) ==
  LET object(result) == IF result.kind = "object" THEN result ELSE YamlObject(<<>>)
  IN object(YamlLoad(raw))

\* matter.language: what follows the opening delimiter on its line.
MatterLanguage(str) ==
  LET nl == IndexOf(str, <<"\n">>)
      \* str.search(/\r?\n/)
      at == IF nl > 0 /\ str[nl] = "\r" THEN nl - 1 ELSE nl
  IN IF at = -1 THEN SliceTo(str, Len(str) - 1) ELSE SliceTo(str, at)

\* /^\s*#[^\n]+/gm removed and the rest trimmed is empty: the block holds
\* nothing but white space and comments.
IsEmptyBlock(block) ==
  LET lines == SplitLines(block)
  IN \A i \in 1..Len(lines) :
       LET l == TrimStart(lines[i])
       IN l = <<>> \/ (l[1] = "#" /\ Len(TrimEnd(l)) > 1)

\* What matter() gives: the data, the content and the language, or an error.
MatterOk(data, content, language) ==
  [kind |-> "ok", data |-> data, content |-> content, language |-> language]

MatterThrows(y) ==
  [kind |-> "error", data |-> y, content |-> <<>>, language |-> <<>>]

\* The content left as it follows the closing delimiter.
StripLeadingNewline_Keep(c) == c

StripLeadingNewline(c) ==
  LET a == IF c # <<>> /\ c[1] = "\r" THEN Tail(c) ELSE c
  IN IF a # <<>> /\ a[1] = "\n" THEN Tail(a) ELSE a

\* The parsed file: no data for an empty block, the engine's data otherwise.
MatterParsed(name, block, content, data) ==
  IF IsEmptyBlock(block) THEN MatterOk(YamlObject(<<>>), content, name)
  ELSE IF name \notin {<<>>, S_yaml, S_yml}
    THEN MatterThrows(YamlException("gray-matter engine is not registered", -1))
  ELSE IF data.kind = "error" THEN MatterThrows(data)
  ELSE MatterOk(data, content, name)

\* The block up to the closing delimiter and the content after it.
MatterBlock(custom, len, name, str, closeIndex) ==
  MatterParsed(name,
               SliceTo(str, MinOf({closeIndex, Len(str)})),
               IF closeIndex = len THEN <<>>
               ELSE StripLeadingNewline(SliceFrom(str, closeIndex + Len(S_close))),
               IF custom THEN customYamlEngine(SliceTo(str, MinOf({closeIndex, Len(str)})))
               ELSE dummyYamlParse(SliceTo(str, MinOf({closeIndex, Len(str)}))))

\* The closing delimiter is sought in what follows the language.
MatterClose(custom, len, name, str, found) ==
  MatterBlock(custom, len, name, str, IF found = -1 THEN len ELSE found)

\* The language is cut off after the length has been taken.
MatterOpened(custom, str0, raw, name) ==
  MatterClose(custom, Len(str0), name,
              IF name # <<>> THEN SliceFrom(str0, Len(raw)) ELSE str0,
              IndexOf(IF name # <<>> THEN SliceFrom(str0, Len(raw)) ELSE str0, S_close))

\* matter(input, { engines: { yaml: engine } }) with the custom engine of
\* parseRuleFileContent or the dummy parser of serializeRuleFile: the data and
\* the content, or the error the engine (or the engine lookup) throws.
Matter(input, custom) ==
  IF input = <<>> THEN MatterOk(YamlObject(<<>>), <<>>, <<>>)
  ELSE IF ~MatchAt(input, S_delim, 0) THEN MatterOk(YamlObject(<<>>), input, <<>>)
  ELSE IF Len(input) > 3 /\ input[4] = "-" THEN MatterOk(YamlObject(<<>>), input, <<>>)
  ELSE MatterOpened(custom, SliceFrom(input, 3), MatterLanguage(SliceFrom(input, 3)),
                    Trim(MatterLanguage(SliceFrom(input, 3))))

S_inFile == <<" ","i","n"," ","f","i","l","e"," ">>

S_atLine == <<" ","a","t"," ","l","i","n","e"," ">>

\* The specificIssue chosen from the parser's message.
SpecificIssue(message) ==
  IF message = "can not read an implicit mapping pair; a colon is missed"
  THEN "A colon ':' is missing in a key-value pair, or a value is missing after a colon"
  ELSE IF message = "mapping values are not allowed here"
  THEN "Indentation or a missing colon might be the issue; mapping values are not allowed in this context"
  ELSE "A colon ':' is likely missing or there's a general syntax error"

\* The catch block: the ConversionError made of the parser's error.
ParseError(m, pathInfo, lineInfo) ==
  [ConversionError(
     "Invalid YAML front-matter${pathInfo}. ${specificIssue}${lineInfo}. Original error: ${message}",
     <<pathInfo, lineInfo>>, "E03")
   EXCEPT !.issue = SpecificIssue(m.data.msg), !.cause = m.data.msg]

\* The catch block naming a file whether or not a path was passed.
ParseResult_InFileAlways(m, path) ==
  IF m.kind = "ok" THEN [kind |-> "ok", data |-> m.data, content |-> m.content, err |-> NoOut]
  ELSE [kind |-> "error", data |-> m.data, content |-> <<>>,
        err |-> ParseError(m, S_inFile \o path,
                           IF m.data.line >= 0 THEN S_atLine \o Decimal(m.data.line + 1)
                           ELSE <<>>)]

ParseResult(m, path) ==
  IF m.kind = "ok" THEN [kind |-> "ok", data |-> m.data, content |-> m.content, err |-> NoOut]
  ELSE [kind |-> "error", data |-> m.data, content |-> <<>>,
        err |-> ParseError(m,
                           IF path # <<>> THEN S_inFile \o path ELSE <<>>,
                           IF m.data.line >= 0 THEN S_atLine \o Decimal(m.data.line + 1)
                           ELSE <<>>)]

\* parseRuleFileContent(fileContent, filePath): { data, content }, or the
\* ConversionError E03 made from the error caught.
parseRuleFileContent(fileContent, path) == ParseResult(Matter(fileContent, TRUE), path)

-----------------------------------------------------------------------------
\* serializeRuleFile: matter.stringify with yaml.dump, then the globs line
\* unquoted and \r\n replaced.

\* Characters that may not open a plain scalar (the grave accent, also
\* reserved, is not in the alphabet of the modelled texts).
IsPlainSafeFirst(c) ==
  /\ ~IsWs(c)
  /\ c \notin {"-", "?", ":", ",", "[", "]", "{", "}", "#", "&", "*", "!", "|", "=",
               ">", "'", "\"", "%", "@"}

IsPlainSafeLast(c) == ~IsWs(c) /\ c # ":"

\* A character that may stand inside a plain scalar after prev, in a block.
IsPlainSafe(c, prev) ==
  LET nsOrWs == c \notin {"\n", "\r", "\t"}
      ns == nsOrWs /\ c # " "
  IN \/ nsOrWs /\ c # "#" /\ ~(prev = ":" /\ ~ns)
     \/ prev \notin {"\n", "\r", "\t", " ", ""} /\ c = "#"
     \/ prev = ":" /\ ns

DeprecatedBooleans ==
  {<<"y">>, <<"Y">>, <<"y","e","s">>, <<"Y","e","s">>, <<"Y","E","S">>,
   <<"o","n">>, <<"O","n">>, <<"O","N">>, <<"n">>, <<"N">>, <<"n","o">>,
   <<"N","o">>, <<"N","O">>, <<"o","f","f">>, <<"O","f","f">>, <<"O","F","F">>}

\* writeScalar for a string on one line: plain when that reads back as the
\* same string, single-quoted otherwise.
DumpString(str) ==
  LET plain == /\ IsPlainSafeFirst(str[1])
               /\ IsPlainSafeLast(str[Len(str)])
               /\ \A i \in 1..Len(str) :
                    IsPlainSafe(str[i], IF i = 1 THEN "" ELSE str[i - 1])
      quoted == <<"'">> \o ReplaceAll(str, <<"'">>, <<"'", "'">>) \o <<"'">>
  IN IF str = <<>> THEN <<"'", "'">>
     ELSE IF str \in DeprecatedBooleans THEN quoted
     ELSE IF plain /\ ResolvePlain(str).t = "str" THEN str
     ELSE quoted

\* writeNode for a scalar value.
DumpValue(x) == IF x.t = "str" THEN DumpString(x.v) ELSE x.v

RECURSIVE DumpPairs(_)
DumpPairs(fm) ==
  IF fm = <<>> THEN <<>>
  ELSE DumpString(fm[1].k) \o <<":", " ">> \o DumpValue(fm[1].v) \o <<"\n">>
       \o DumpPairs(Tail(fm))

\* yaml.dump(data, { lineWidth: -1, ... })
YamlDump(fm) == IF fm = <<>> THEN <<"{", "}", "\n">> ELSE DumpPairs(fm)

\* newline(str) of gray-matter: str ending in exactly the newline it has, or one added.
Newline(str) == IF str # <<>> /\ str[Len(str)] = "\n" THEN str ELSE str \o <<"\n">>

RECURSIVE Assign(_, _)
\* Object.assign(a, b)
Assign(a, b) == IF b = <<>> THEN a ELSE Assign(Set(a, b[1].k, b[1].v), Tail(b))

\* rawOutput.replace(/^globs:\s*(['"])(.*?)\1\s*$/m, 'globs: $2')
UnquoteGlobsAt(text, p) ==
  LET Solid(i) ==
        LET solid == {j \in i..(Len(text) - 1) : ~IsWs(text[j + 1])}
        IN IF solid = {} THEN Len(text) ELSE MinOf(solid)
      LineEnd(i) ==
        LET nl == {j \in i..(Len(text) - 1) : text[j + 1] = "\n"}
        IN IF nl = {} THEN Len(text) ELSE MinOf(nl)
      none == [found |-> FALSE, text |-> text]
      closing(open, close, runEnd) ==
        [found |-> TRUE,
         text |-> SubSeq(text, 1, p) \o S_globsColon \o <<" ">>
                  \o SubSeq(text, open + 2, close)
                  \o SubSeq(text, MaxOf({m \in (close + 1)..runEnd :
                                           m = Len(text) \/ text[m + 1] = "\n"}) + 1,
                            Len(text))]
      closedAt(open, close) == closing(open, close, Solid(close + 1))
      \* (.*?) is lazy: the first closing quote that only white space follows
      quoted(open, closes) == IF closes = {} THEN none ELSE closedAt(open, MinOf(closes))
      line(open, lineEnd) ==
        quoted(open, {c \in (open + 1)..(lineEnd - 1) :
                        /\ text[c + 1] = text[open + 1]
                        /\ \A i \in (c + 1)..(lineEnd - 1) : IsWs(text[i + 1])})
      opened(open) ==
        IF open = Len(text) \/ text[open + 1] \notin {"'", "\""} THEN none
        ELSE line(open, LineEnd(open))
  IN opened(Solid(p + Len(S_globsColon)))

UnquoteGlobs(text) ==
  LET first(heads) ==
        IF heads = {} THEN text ELSE UnquoteGlobsAt(text, MinOf(heads)).text
  IN first({p \in 0..(Len(text) - Len(S_globsColon)) :
              /\ p = 0 \/ text[p] = "\n"
              /\ MatchAt(text, S_globsColon, p)
              /\ UnquoteGlobsAt(text, p).found})

\* ToObject of the value handed to a mapper or to Object.assign: an object is
\* itself, a string has its characters under the keys 0, 1, ..., any other
\* scalar has no own keys.
OwnEntries(data) ==
  IF data.kind = "object" THEN data.fm
  ELSE IF data.kind = "scalar" /\ data.sv.t = "str"
    THEN [i \in 1..Len(data.sv.v) |-> [k |-> Decimal(i - 1), v |-> Str(<<data.sv.v[i]>>)]]
  ELSE <<>>

\* The delimited front-matter, unless it is empty, and the content.
StringifyJoin(matter, str) ==
  (IF matter # <<"{", "}">>
   THEN Newline(S_delim) \o Newline(matter) \o Newline(S_delim)
   ELSE <<>>)
  \o Newline(str)

\* matter.stringify(file, data, options) for the parsed content.
Stringify(file, frontMatter) ==
  IF file.kind = "error" \/ file.language \notin {<<>>, S_yaml, S_yml}
  THEN OtherError("gray-matter engine is not registered")
  ELSE RetText(ReplaceAll(
         UnquoteGlobs(StringifyJoin(
           Trim(YamlDump(Assign(OwnEntries(file.data), frontMatter))), file.content)),
         <<"\r", "\n">>, <<"\n">>))

\* serializeRuleFile(frontMatter, content): the text, or the error thrown when
\* the content opens a front-matter block of a language with no engine.
serializeRuleFile(frontMatter, content) == Stringify(Matter(content, FALSE), frontMatter)

-----------------------------------------------------------------------------
\* detectFormat.

\* Number of leading characters scanned for the trigger key.
DetectWindow == 512

WINDSURF_TRIGGER_KEY == K_trigger \o <<":">>

\* fileContent.substring(0, Math.min(fileContent.length, 512))
FirstFewLines_Whole(fileContent) == fileContent

FirstFewLines(fileContent) == SliceTo(fileContent, MinOf({Len(fileContent), DetectWindow}))

\* The tests made on the data once the text has no trigger key in its window.
\* A primitive on the right of `in` is a TypeError.
DetectFromData(data) ==
  IF data.kind # "object" THEN OtherError("Cannot use 'in' operator to search for 'trigger'")
  ELSE IF Has(data.fm, K_trigger) THEN RetFormat("windsurf")
  ELSE IF Get(data.fm, K_alwaysApply).t = "bool" THEN RetFormat("cursor")
  ELSE IF Get(data.fm, K_globs) # Undefined \/ Get(data.fm, K_description) # Undefined
    THEN RetFormat("cursor")
  ELSE RetFormat("unknown")

\* parsedData || ... : an object or a truthy scalar stands for itself.
IsGiven(parsedData) ==
  \/ parsedData.kind = "object"
  \/ parsedData.kind = "scalar" /\ Truthy(parsedData.sv)

\* parseRuleFileContent(fileContent).data, or the error of the parse.
DetectFromParse(p) == IF p.kind = "error" THEN p.err ELSE DetectFromData(p.data)

\* detectFormat(fileContent, parsedData); the text is parsed, without a path,
\* only when no data is given.
detectFormat(fileContent, parsedData) ==
  IF Includes(FirstFewLines(fileContent), WINDSURF_TRIGGER_KEY) THEN RetFormat("windsurf")
  ELSE IF IsGiven(parsedData) THEN DetectFromData(parsedData)
  ELSE DetectFromParse(parseRuleFileContent(fileContent, <<>>))

-----------------------------------------------------------------------------
\* convertRuleContent.

S_forFile == <<" ","f","o","r"," ","f","i","l","e"," ">>

FormatName(f) ==
  IF f = "cursor" THEN <<"c","u","r","s","o","r">>
  ELSE IF f = "windsurf" THEN <<"w","i","n","d","s","u","r","f">>
  ELSE <<"u","n","k","n","o","w","n">>

ExpectedFormat_Swapped(dir) ==
  IF dir = "cw" THEN <<"W","i","n","d","s","u","r","f">> ELSE <<"C","u","r","s","o","r">>

ExpectedFormat(dir) ==
  IF dir = "cw" THEN <<"C","u","r","s","o","r">> ELSE <<"W","i","n","d","s","u","r","f">>

SourceFormat_DefaultCursor(force, detected) ==
  IF force # "" THEN RetFormat(force)
  ELSE IF detected.kind = "format" /\ detected.format = "unknown" THEN RetFormat("cursor")
  ELSE detected

SourceFormat_DetectedFirst(force, detected) ==
  IF detected.kind = "format" /\ detected.format # "unknown" THEN detected
  ELSE IF force # "" THEN RetFormat(force)
  ELSE detected

\* forceFormat || detectFormat(sourceContent, rawFrontMatter)
SourceFormat(force, detected) == IF force # "" THEN RetFormat(force) ELSE detected

\* The branch taken once the source format is known: which mapper runs, if any.
MapperFor_Direction(dir, detected) ==
  IF dir = "cw" THEN "mapCursorToWindsurf" ELSE "mapWindsurfToCursor"

MapperFor(dir, detected) ==
  IF dir = "cw" /\ detected = "cursor" THEN "mapCursorToWindsurf"
  ELSE IF dir = "wc" /\ detected = "windsurf" THEN "mapWindsurfToCursor"
  ELSE "none"

\* return serializeRuleFile(targetFrontMatter, content), unless the mapper threw.
ConvertSerialize(mapper, target, content) ==
  [out |-> IF target.kind # "fm" THEN target ELSE serializeRuleFile(target.fm, content),
   mapper |-> mapper]

\* The dispatch with the mapper of the direction run before the source format
\* is compared with the direction.
ConvertMap_MapFirst(dir, forFile, rawFrontMatter, content, detected, mapper) ==
  IF dir = "wc" /\ mapWindsurfToCursor(rawFrontMatter).kind # "fm"
  THEN [out |-> mapWindsurfToCursor(rawFrontMatter), mapper |-> "none"]
  ELSE IF mapper = "none"
  THEN [out |-> ConversionError(
                  "Expected ${expectedFormat} format but detected ${detectedSourceFormat}${forFile}. Use --force if necessary.",
                  <<ExpectedFormat(dir), FormatName(detected), forFile>>, "E01"),
        mapper |-> "none"]
  ELSE ConvertSerialize(mapper,
                        IF mapper = "mapCursorToWindsurf"
                        THEN mapCursorToWindsurf(rawFrontMatter)
                        ELSE mapWindsurfToCursor(rawFrontMatter),
                        content)

\* The mapper chosen by direction and source format, or the mismatch error.
ConvertMap(dir, forFile, rawFrontMatter, content, detected, mapper) ==
  IF mapper = "none"
  THEN [out |-> ConversionError(
                  "Expected ${expectedFormat} format but detected ${detectedSourceFormat}${forFile}. Use --force if necessary.",
                  <<ExpectedFormat(dir), FormatName(detected), forFile>>, "E01"),
        mapper |-> "none"]
  ELSE ConvertSerialize(mapper,
                        IF mapper = "mapCursorToWindsurf"
                        THEN mapCursorToWindsurf(rawFrontMatter)
                        ELSE mapWindsurfToCursor(rawFrontMatter),
                        content)

\* The source format once forced or detected.
ConvertDetected(dir, forFile, parsed, detected) ==
  IF parsed.kind = "error" THEN [out |-> parsed.err, mapper |-> "none"]
  ELSE IF detected.kind # "format" THEN [out |-> detected, mapper |-> "none"]
  ELSE IF detected.format = "unknown"
    THEN [out |-> ConversionError(
                    "Could not determine source format${forFile}. Use --force if necessary.",
                    <<forFile>>, "E01"),
          mapper |-> "none"]
  ELSE ConvertMap(dir, forFile, OwnEntries(parsed.data), parsed.content, detected.format,
                  MapperFor(dir, detected.format))

ConvertParsed(sourceContent, dir, force, path, parsed) ==
  ConvertDetected(dir, IF path # <<>> THEN S_forFile \o path ELSE <<>>, parsed,
                  SourceFormat(force, detectFormat(sourceContent, parsed.data)))

\* convertRuleContent(sourceContent, direction, forceFormat, filePath): the
\* outcome and the mapper that was run on the way.
convertRuleContent(sourceContent, dir, force, path) ==
  ConvertParsed(sourceContent, dir, force, path, parseRuleFileContent(sourceContent, path))

\* convertString of index.ts: convertRuleContent without a file path.
convertString(sourceContent, dir, force) == convertRuleContent(sourceContent, dir, force, <<>>)

-----------------------------------------------------------------------------
\* Rule file texts.

S_body == <<"B","o","d","y">>

\* A body that mentions the trigger key.
S_bodyTrigger == <<"s","e","e"," ">> \o WINDSURF_TRIGGER_KEY \o <<" ","x">>

KeyLine(k, v) == k \o <<":", " ">> \o v

\* A comment line after which, as the first line of a front-matter block, the
\* next line begins at the given offset of the text.
PadLine(offset) == <<"#">> \o [i \in 1..(offset - Len(S_delim) - 3) |-> "x"]

RECURSIVE Lines(_)
Lines(ls) == IF ls = <<>> THEN <<>> ELSE ls[1] \o <<"\n">> \o Lines(Tail(ls))

\* The rule file with the given front-matter lines and body.
Doc(ls, body) == S_delim \o <<"\n">> \o Lines(ls) \o S_delim \o <<"\n">> \o body

\* No line, or one of the lines `k: v`.
OptLine(k, values) == {<<>>} \cup {<<KeyLine(k, v)>> : v \in values}

ExtraLines == {[i \in 1..n |-> KeyLine(ExtraKey(i), S_v)] : n \in 0..MaxExtraKeys}

\* Bodies with line endings and openings of their own: empty, ending in a
\* newline, opening with a blank line, holding \r\n or a lone \r, and opening
\* with a thematic break `---`.
SpecialBodies ==
  {<<>>,
   S_body \o <<"\n">>,
   <<"\n">> \o S_body,
   <<"B", "\r", "\n", "C">>,
   <<"B", "\r", "C">>,
   S_delim \o <<"\n">> \o S_body}

\* A block whose only line has no colon after a pair: not YAML.
MalformedDoc == Doc(<<KeyLine(K_description, S_desc), S_bogus>>, S_body)

\* A block that is one plain scalar.
ScalarDoc == Doc(<<S_bogus>>, S_body)

\* Texts without a usable front-matter mapping.
SpecialTexts == {<<>>, S_body, S_bodyTrigger, Doc(<<>>, S_body), MalformedDoc, ScalarDoc}

-----------------------------------------------------------------------------
\* detectFormat called on a text, with or without a pre-parsed mapping.

\* Offsets of the trigger line around the end of the scanned window: the key
\* and its colon end before the window's end, at it, and one past it.
TriggerOffsets ==
  {DetectWindow - Len(WINDSURF_TRIGGER_KEY) - 1, DetectWindow - Len(WINDSURF_TRIGGER_KEY),
   DetectWindow - Len(WINDSURF_TRIGGER_KEY) + 1}

DetectTexts ==
  SpecialTexts
  \cup {Doc(a \o t \o d, body) :
          a \in OptLine(K_alwaysApply, {S_true, <<"'">> \o S_true \o <<"'">>}),
          t \in OptLine(K_trigger, {S_manual}),
          d \in OptLine(K_description, {S_desc}),
          body \in {S_body, S_bodyTrigger}}
  \cup {Doc(<<PadLine(o)>> \o t \o a, S_body) :
          o \in TriggerOffsets,
          t \in OptLine(K_trigger, {S_manual}),
          a \in OptLine(K_alwaysApply, {S_true})}
  \cup {Doc(<<PadLine(DetectWindow)>> \o g, S_bodyTrigger) : g \in OptLine(K_globs, {S_pattern})}

DetectMappings ==
  {MakeFm(a, t, d, g, <<>>, FALSE) :
     a \in {Absent, Bool(TRUE), Bool(FALSE), Str(S_true), Null},
     t \in {Absent, Str(S_manual), Null, Undefined},
     d \in {Absent, Str(S_desc), Undefined},
     g \in {Absent, Str(S_pattern), Null, Undefined}}

DetectInit ==
  /\ pc = "start"
  /\ op = "none"
  /\ inFm = <<>>
  /\ inText \in DetectTexts
  /\ inData \in {NoData} \cup {[given |-> TRUE, fm |-> fm] : fm \in DetectMappings}
  /\ direction = "cw"
  /\ forceFormat = ""
  /\ filePath = <<>>
  /\ out = NoOut
  /\ mapperRun = "none"
  /\ back = NoOut
  /\ reparsed = NoParse
  /\ NoFileState

\* detectFormat(fileContent, parsedData)
CallDetectFormatWithData ==
  /\ pc = "start"
  /\ inData.given
  /\ pc' = "done"
  /\ op' = "detectFormat"
  /\ out' = detectFormat(inText, YamlObject(inData.fm))
  /\ UNCHANGED <<inFm, inText, inData, direction, forceFormat, filePath, mapperRun, back, reparsed>>
  /\ UNCHANGED fileVars

\* detectFormat(fileContent)
CallDetectFormat ==
  /\ pc = "start"
  /\ ~inData.given
  /\ pc' = "done"
  /\ op' = "detectFormat"
  /\ out' = detectFormat(inText, YamlUndefined)
  /\ UNCHANGED <<inFm, inText, inData, direction, forceFormat, filePath, mapperRun, back, reparsed>>
  /\ UNCHANGED fileVars

DetectNext == CallDetectFormatWithData \/ CallDetectFormat

SpecDetect == DetectInit /\ [][DetectNext]_vars

-----------------------------------------------------------------------------
\* convertRuleContent called on a text.

S_path == <<"r", ".", "m", "d">>

ConvertTexts ==
  SpecialTexts
  \cup {Doc(a \o t \o d \o g \o x, body) :
          a \in OptLine(K_alwaysApply, {S_true, S_false}),
          t \in OptLine(K_trigger, {S_manual, S_always_on, S_glob, S_model_decision, S_bogus}),
          d \in OptLine(K_description, {S_desc}),
          g \in OptLine(K_globs, {S_pattern}),
          x \in ExtraLines,
          body \in {S_body, S_bodyTrigger}}
  \* the trigger key beyond the scanned window, in the block or in the body
  \cup {Doc(<<PadLine(DetectWindow)>> \o t \o a, body) :
          t \in OptLine(K_trigger, {S_manual}),
          a \in OptLine(K_alwaysApply, {S_true}),
          body \in {S_body, S_bodyTrigger}}
  \cup {Doc(<<l>>, body) :
          l \in {KeyLine(K_alwaysApply, S_true), KeyLine(K_trigger, S_manual)},
          body \in SpecialBodies}
  \* pass-through keys first, globs before description, the policy key last
  \cup {Doc(x \o g \o d \o <<l>>, S_body) :
          x \in ExtraLines,
          g \in OptLine(K_globs, {S_pattern}),
          d \in OptLine(K_description, {S_desc}),
          l \in {KeyLine(K_alwaysApply, S_true), KeyLine(K_alwaysApply, S_false),
                 KeyLine(K_trigger, S_manual), KeyLine(K_trigger, S_glob),
                 KeyLine(K_trigger, S_model_decision)}}

ConvertInit ==
  /\ pc = "start"
  /\ op = "none"
  /\ inFm = <<>>
  /\ inText \in ConvertTexts
  /\ inData = NoData
  /\ direction \in {"cw", "wc"}
  /\ forceFormat \in {"", "cursor", "windsurf"}
  /\ filePath \in {<<>>, S_path}
  /\ out = NoOut
  /\ mapperRun = "none"
  /\ back = NoOut
  /\ reparsed = NoParse
  /\ NoFileState

\* The call returns or throws; the mapper it ran is recorded.
ConvertDone(result) ==
  /\ out' = result.out
  /\ mapperRun' = result.mapper

CallConvertRuleContent ==
  /\ pc = "start"
  /\ pc' = "done"
  /\ op' = "convertRuleContent"
  /\ ConvertDone(convertRuleContent(inText, direction, forceFormat, filePath))
  /\ UNCHANGED <<inFm, inText, inData, direction, forceFormat, filePath, back, reparsed>>
  /\ UNCHANGED fileVars

CallConvertString ==
  /\ pc = "start"
  /\ filePath = <<>>
  /\ pc' = "done"
  /\ op' = "convertString"
  /\ ConvertDone(convertString(inText, direction, forceFormat))
  /\ UNCHANGED <<inFm, inText, inData, direction, forceFormat, filePath, back, reparsed>>
  /\ UNCHANGED fileVars

Opposite(dir) == IF dir = "cw" THEN "wc" ELSE "cw"

\* The text a conversion without a forced format returned is converted in the
\* opposite direction, again without a forced format.
CallConvertBack ==
  /\ pc = "done"
  /\ op = "convertRuleContent"
  /\ forceFormat = ""
  /\ out.kind = "text"
  /\ pc' = "back"
  /\ back' = convertRuleContent(out.text, Opposite(direction), "", filePath).out
  /\ UNCHANGED <<op, inFm, inText, inData, direction, forceFormat, filePath, out, mapperRun,
               reparsed>>
  /\ UNCHANGED fileVars

\* detectFormat(<the text a conversion returned>)
CallDetectConverted ==
  /\ pc = "done"
  /\ op = "convertRuleContent"
  /\ out.kind = "text"
  /\ pc' = "detected"
  /\ back' = detectFormat(out.text, YamlUndefined)
  /\ UNCHANGED <<op, inFm, inText, inData, direction, forceFormat, filePath, out, mapperRun,
                 reparsed>>
  /\ UNCHANGED fileVars

ConvertNext ==
  CallConvertRuleContent \/ CallConvertString \/ CallConvertBack \/ CallDetectConverted

SpecConvert == ConvertInit /\ [][ConvertNext]_vars

-----------------------------------------------------------------------------
\* serializeRuleFile called on a mapping and a body, its text parsed again and
\* the parse serialized again.

S_colonValue == <<"a", ":", " ", "b">>

S_hashValue == <<"a", " ", "#", "b">>

S_quoteGlob == <<"i", "t", "'", "s", "/", "*">>

S_plainGlob == <<"s", "r", "c">>

\* A body with a quoted globs line of its own.
S_bodyGlobs == K_globs \o <<":", " ", "'", "a", "'", "\n">> \o S_body

SerializeMappings ==
  {MakeFm(a, t, d, g, xs, r) :
     a \in {Absent, Bool(TRUE)},
     t \in {Absent, Str(S_glob)},
     d \in {Absent, Str(S_desc), Str(S_true), Str(<<>>), Str(S_colonValue), Str(S_hashValue),
            Null, Num(<<"7">>)},
     g \in {Absent, Str(S_pattern), Str(S_plainGlob), Str(S_quoteGlob), Str(S_true),
            Str(<<>>)},
     xs \in ExtraValues, r \in BOOLEAN}

SerializeBodies == SpecialBodies \cup {S_body, S_bodyTrigger, S_bodyGlobs}

SerializeInit ==
  /\ pc = "start"
  /\ op = "none"
  /\ inFm \in SerializeMappings
  /\ inText \in SerializeBodies
  /\ inData = NoData
  /\ direction = "cw"
  /\ forceFormat = ""
  /\ filePath = <<>>
  /\ out = NoOut
  /\ mapperRun = "none"
  /\ back = NoOut
  /\ reparsed = NoParse
  /\ NoFileState

\* serializeRuleFile(frontMatter, content)
CallSerializeRuleFile ==
  /\ pc = "start"
  /\ pc' = "done"
  /\ op' = "serializeRuleFile"
  /\ out' = serializeRuleFile(inFm, inText)
  /\ UNCHANGED <<inFm, inText, inData, direction, forceFormat, filePath, mapperRun, back, reparsed>>
  /\ UNCHANGED fileVars

\* parseRuleFileContent(<the text serialized>)
CallParseSerialized ==
  /\ pc = "done"
  /\ op = "serializeRuleFile"
  /\ out.kind = "text"
  /\ pc' = "parsed"
  /\ reparsed' = parseRuleFileContent(out.text, <<>>)
  /\ UNCHANGED <<op, inFm, inText, inData, direction, forceFormat, filePath, out, mapperRun,
                 back>>
  /\ UNCHANGED fileVars

\* serializeRuleFile(data, content) of that parse
CallSerializeParsed ==
  /\ pc = "parsed"
  /\ op = "serializeRuleFile"
  /\ reparsed.kind = "ok"
  /\ pc' = "reserialized"
  /\ back' = serializeRuleFile(OwnEntries(reparsed.data), reparsed.content)
  /\ UNCHANGED <<op, inFm, inText, inData, direction, forceFormat, filePath, out, mapperRun,
                 reparsed>>
  /\ UNCHANGED fileVars

SerializeNext == CallSerializeRuleFile \/ CallParseSerialized \/ CallSerializeParsed

SpecSerialize == SerializeInit /\ [][SerializeNext]_vars

-----------------------------------------------------------------------------
\* parseRuleFileContent called on a text, alone or as the first step of
\* convertRuleContent.

\* Texts that do not open with the delimiter: empty, plain bodies, a line that
\* reads like a pair, a block that starts on the second line or after a
\* space, two dashes only, a delimiter line at the end.
NoBlockTexts ==
  {<<>>, S_body, S_bodyTrigger, <<"B", "\r", "\n", "C">>,
   KeyLine(K_description, S_desc),
   <<"\n">> \o Doc(<<KeyLine(K_description, S_desc)>>, S_body),
   <<" ">> \o Doc(<<KeyLine(K_description, S_desc)>>, S_body),
   <<"-", "-", "\n">> \o S_body,
   S_body \o <<"\n">> \o S_delim \o <<"\n">>}

\* Mappings whose values are written in a block as they are, without quotes.
BlockMappings ==
  {MakeFm(a, t, d, g, xs, r) :
     a \in {Absent, Bool(TRUE)},
     t \in {Absent, Str(S_manual)},
     d \in {Absent, Str(S_desc)},
     g \in {Absent, Str(S_pattern)},
     xs \in ExtraValues, r \in BOOLEAN}

\* The front-matter block of a mapping: one line `key: value` per entry.
BlockLines(fm) == [i \in 1..Len(fm) |-> KeyLine(fm[i].k, fm[i].v.v)]

\* A text that is only the block of the mapping, with or without the line
\* end after the closing delimiter.
BlockOnly(fm, closed) ==
  IF closed THEN Doc(BlockLines(fm), <<>>) ELSE TrimEnd(Doc(BlockLines(fm), <<>>))

S_toml == <<"t", "o", "m", "l">>

\* Blocks that are not a YAML mapping: a line without a colon last or first,
\* a colon for a value, a quote left open, an indented first pair, a key twice, an empty globs
\* value before another pair, and a block of a language with no engine.
MalformedTexts ==
  {MalformedDoc,
   Doc(<<KeyLine(K_description, <<":">>)>>, S_body),
   Doc(<<S_bogus, KeyLine(K_description, S_desc)>>, S_body),
   Doc(<<KeyLine(K_description, <<"'">> \o S_desc)>>, S_body),
   Doc(<<<<" ">> \o KeyLine(K_description, S_desc)>>, S_body),
   Doc(<<KeyLine(K_description, S_desc), KeyLine(K_trigger, S_manual),
         KeyLine(K_description, S_desc)>>, S_body),
   Doc(<<K_globs \o <<":", " ">>, KeyLine(K_description, S_desc)>>, S_body),
   S_delim \o S_toml \o <<"\n">> \o KeyLine(K_description, S_desc) \o <<"\n">> \o S_delim
     \o <<"\n">> \o S_body}

ParseTexts ==
  NoBlockTexts
  \cup MalformedTexts
  \cup {ScalarDoc}
  \cup {BlockOnly(fm, closed) : fm \in BlockMappings, closed \in BOOLEAN}
  \cup {Doc(BlockLines(fm), body) : fm \in BlockMappings, body \in {S_body, <<"\n">> \o S_body}}

ParseInit ==
  /\ pc = "start"
  /\ op = "none"
  /\ inFm = <<>>
  /\ inText \in ParseTexts
  /\ inData = NoData
  /\ direction \in {"cw", "wc"}
  /\ forceFormat = ""
  /\ filePath \in {<<>>, S_path}
  /\ out = NoOut
  /\ mapperRun = "none"
  /\ back = NoOut
  /\ reparsed = NoParse
  /\ NoFileState

\* parseRuleFileContent(fileContent, filePath)
CallParseRuleFileContent ==
  /\ pc = "start"
  /\ pc' = "done"
  /\ op' = "parseRuleFileContent"
  /\ reparsed' = parseRuleFileContent(inText, filePath)
  /\ out' = parseRuleFileContent(inText, filePath).err
  /\ UNCHANGED <<inFm, inText, inData, direction, forceFormat, filePath, mapperRun, back>>
  /\ UNCHANGED fileVars

ParseNext == CallParseRuleFileContent \/ CallConvertRuleContent

SpecParse == ParseInit /\ [][ParseNext]_vars

-----------------------------------------------------------------------------
\* Properties of detectFormat, checked under SpecDetect.

DetectDone == pc = "done" /\ op = "detectFormat"

\* The literal `trigger:` lies wholly within the first DetectWindow characters.
TriggerInWindow(text) ==
  \E i \in 0..(DetectWindow - Len(WINDSURF_TRIGGER_KEY)) :
     MatchAt(text, WINDSURF_TRIGGER_KEY, i)

\* A field is there when its key holds anything but undefined.
Defined(fm, k) == Get(fm, k) # Undefined

\* The format the stated precedence gives for a text and a mapping.
FormatByPrecedence(text, fm) ==
  IF TriggerInWindow(text) THEN "windsurf"
  ELSE IF Has(fm, K_trigger) THEN "windsurf"
  ELSE IF Get(fm, K_alwaysApply) \in {Bool(TRUE), Bool(FALSE)} THEN "cursor"
  ELSE IF Defined(fm, K_description) \/ Defined(fm, K_globs) THEN "cursor"
  ELSE "unknown"

\* The mapping detectFormat works on when none is passed: the front-matter
\* parsed from the text.
ParsedMapping(text) == parseRuleFileContent(text, <<>>)

-----------------------------------------------------------------------------
\* Properties of convertRuleContent, checked under SpecConvert.

Converted == pc = "done" /\ op = "convertRuleContent"

\* The parse convertRuleContent starts with.
SourceParse == parseRuleFileContent(inText, filePath)

\* What detectFormat answers for the source and its parsed front-matter.
Detection == detectFormat(inText, SourceParse.data)

\* The forced format, or else the detected one; "" when there is none.
EffectiveFormat ==
  IF forceFormat # "" THEN forceFormat
  ELSE IF Detection.kind = "format" THEN Detection.format
  ELSE ""

ForFile == IF filePath # <<>> THEN S_forFile \o filePath ELSE <<>>

UnknownFormatError ==
  ConversionError("Could not determine source format${forFile}. Use --force if necessary.",
                  <<ForFile>>, "E01")

MismatchError ==
  ConversionError(
    "Expected ${expectedFormat} format but detected ${detectedSourceFormat}${forFile}. Use --force if necessary.",
    <<ExpectedFormat(direction), FormatName(EffectiveFormat), ForFile>>, "E01")

DirectionMatches ==
  \/ direction = "cw" /\ EffectiveFormat = "cursor"
  \/ direction = "wc" /\ EffectiveFormat = "windsurf"

\* C9: convertRuleContent fails with the E01 error "Could not determine source
\* format" exactly when no format is forced and detection returns unknown; in
\* that case no mapper runs and no text is returned, and with a forced format
\* the error never occurs.
C9_UnknownExactlyWhenUndetected ==
  Converted =>
    /\ (out.kind = "error" /\ out.code = "E01" /\ out.tmpl = UnknownFormatError.tmpl)
       <=> (forceFormat = "" /\ SourceParse.kind = "ok" /\ Detection = RetFormat("unknown"))
    /\ (forceFormat = "" /\ SourceParse.kind = "ok" /\ Detection = RetFormat("unknown"))
       => out = UnknownFormatError /\ mapperRun = "none"

\* A file with front-matter of neither dialect, converted without a forced
\* format, is refused.
C9_Witness ==
  /\ Converted
  /\ forceFormat = ""
  /\ filePath = S_path
  /\ SourceParse.kind = "ok"
  /\ SourceParse.data.fm # <<>>
  /\ out = UnknownFormatError

\* C10: for a source that parses, convertRuleContent runs mapCursorToWindsurf
\* only for direction cw with effective format cursor and mapWindsurfToCursor
\* only for direction wc with effective format windsurf; when the effective
\* format is cursor or windsurf and does not match the direction it throws
\* E01 naming the expected and the detected format, and no mapper runs.
C10_MapperOnlyOnMatch ==
  Converted =>
    /\ mapperRun = "mapCursorToWindsurf" => direction = "cw" /\ EffectiveFormat = "cursor"
    /\ mapperRun = "mapWindsurfToCursor" => direction = "wc" /\ EffectiveFormat = "windsurf"
    /\ (SourceParse.kind = "ok" /\ EffectiveFormat \in {"cursor", "windsurf"})
       => IF DirectionMatches THEN mapperRun # "none"
          ELSE out = MismatchError /\ mapperRun = "none"

\* A file detected as windsurf, converted in direction cw, is refused with
\* the expected and the detected format in the message.
C10_Witness ==
  /\ Converted
  /\ direction = "cw"
  /\ forceFormat = ""
  /\ EffectiveFormat = "windsurf"
  /\ out = MismatchError
  /\ out.args[1] = ExpectedFormat("cw")
  /\ out.args[2] = FormatName("windsurf")
  /\ mapperRun = "none"

\* A call of either entry point has ended.
ConvertedAny == pc = "done" /\ op \in {"convertRuleContent", "convertString"}

\* What the dispatch on direction gives when the source format is the forced one.
ForcedOutcome ==
  ConvertMap(direction, ForFile, OwnEntries(SourceParse.data), SourceParse.content,
             forceFormat, MapperFor(direction, forceFormat))

\* C11: with a forced format, convertRuleContent and convertString treat the
\* source as being of that format whatever detectFormat answers for it: the
\* outcome of a source that parses is that of the dispatch on the forced
\* format, so a source detected as windsurf and forced to cursor is mapped by
\* mapCursorToWindsurf in direction cw, and symmetrically for wc.
C11_ForcedReplacesDetection ==
  (ConvertedAny /\ forceFormat # "" /\ SourceParse.kind = "ok")
    => /\ out = ForcedOutcome.out
       /\ mapperRun = ForcedOutcome.mapper
       /\ (direction = "cw" /\ forceFormat = "cursor") => mapperRun = "mapCursorToWindsurf"
       /\ (direction = "wc" /\ forceFormat = "windsurf") => mapperRun = "mapWindsurfToCursor"

\* A source detected as windsurf, forced to cursor and converted by
\* convertString in direction cw, comes out as text of mapCursorToWindsurf.
C11_Witness ==
  /\ pc = "done"
  /\ op = "convertString"
  /\ direction = "cw"
  /\ forceFormat = "cursor"
  /\ Detection = RetFormat("windsurf")
  /\ mapperRun = "mapCursorToWindsurf"
  /\ out.kind = "text"

\* C12 as stated: a source detected as windsurf, converted in direction cw and
\* forced as cursor, fails with the mismatch error "Expected Cursor ... but
\* detected windsurf".
C12_AsStated ==
  (Converted /\ direction = "cw" /\ forceFormat = "cursor"
   /\ Detection = RetFormat("windsurf"))
    => /\ out.kind = "error"
       /\ out.code = "E01"
       /\ out.tmpl = MismatchError.tmpl

\* C12: a source detected as windsurf and converted in direction cw fails
\* with the mismatch error "Expected Cursor format but detected windsurf"
\* when the format is forced as windsurf or not forced; forced as cursor it is
\* handed to mapCursorToWindsurf and no mismatch error is thrown.
C12_ForcedMismatch ==
  (Converted /\ direction = "cw" /\ SourceParse.kind = "ok"
   /\ Detection = RetFormat("windsurf"))
    => /\ forceFormat \in {"", "windsurf"}
          => /\ out.kind = "error" /\ out.code = "E01"
             /\ out.tmpl = MismatchError.tmpl
             /\ out.args = <<<<"C","u","r","s","o","r">>, <<"w","i","n","d","s","u","r","f">>,
                             ForFile>>
             /\ mapperRun = "none"
       /\ forceFormat = "cursor"
          => /\ mapperRun = "mapCursorToWindsurf"
             /\ ~(out.kind = "error" /\ out.code = "E01")

\* A windsurf source forced as windsurf in direction cw is refused.
C12_Witness ==
  /\ Converted
  /\ direction = "cw"
  /\ forceFormat = "windsurf"
  /\ Detection = RetFormat("windsurf")
  /\ filePath = S_path
  /\ out.kind = "error"
  /\ out.args[2] = <<"w","i","n","d","s","u","r","f">>

S_closeLine == S_close \o <<"\n">>

\* The text after the closing delimiter line of a serialized rule.
OutputBody(text) == SliceFrom(text, IndexOf(text, S_closeLine) + Len(S_closeLine))

\* C13 as stated: in every successful conversion the text after the closing
\* delimiter of the output is the parsed body of the input, with one newline
\* appended when the body does not end in one, and nothing else changed.
C13_AsStated ==
  (Converted /\ out.kind = "text")
    => /\ MatchAt(out.text, S_delim \o <<"\n">>, 0)
       /\ OutputBody(out.text) = Newline(SourceParse.content)

\* The front-matter and the body parsed from the text that came back.
BackParse == parseRuleFileContent(back.text, <<>>)

\* The same activation policy: the same trigger for a Windsurf original, the
\* same truth of alwaysApply for a Cursor original.
SamePolicy(original, returned) ==
  IF direction = "wc" THEN Get(returned, K_trigger) = Get(original, K_trigger)
  ELSE (Get(returned, K_alwaysApply) = Bool(TRUE)) <=> (Get(original, K_alwaysApply) = Bool(TRUE))

\* C14 as stated: when a conversion without a forced format succeeds,
\* converting its output in the opposite direction succeeds too, gives back
\* the original body (up to the newline the serializer appends) and
\* front-matter with the original's activation policy.
C14_AsStated ==
  pc = "back"
    => /\ back.kind = "text"
       /\ BackParse.content = Newline(SourceParse.content)
       /\ SamePolicy(SourceParse.data.fm, BackParse.data.fm)

-----------------------------------------------------------------------------
\* Properties of serializeRuleFile, checked under SpecSerialize.

Serialized == pc = "done" /\ op = "serializeRuleFile"

EndsWith(text, suffix) ==
  /\ Len(text) >= Len(suffix)
  /\ SliceFrom(text, Len(text) - Len(suffix)) = suffix

\* The body followed by a newline that is added only when it is missing.
BodyWithNewline(body) ==
  IF body # <<>> /\ body[Len(body)] = "\n" THEN body ELSE body \o <<"\n">>

S_closeTwoNewlines == <<"-", "-", "-", "\n", "\n">>

\* C15 as the specification states it: the text serializeRuleFile returns
\* ends with the body and one newline added only when the body lacks it; with
\* an empty mapping the text is exactly that and has no delimiter line; with a
\* non-empty mapping and an empty body exactly two newlines follow the closing
\* delimiter.
C15_AsStated ==
  Serialized =>
    /\ out.kind = "text"
    /\ EndsWith(out.text, BodyWithNewline(inText))
    /\ inFm = <<>> => out.text = BodyWithNewline(inText)
    /\ (inFm # <<>> /\ inText = <<>>) =>
         /\ EndsWith(out.text, S_closeTwoNewlines)
         /\ ~EndsWith(out.text, <<"\n">> \o S_closeTwoNewlines \o <<"\n">>)


\* C17 as the specification states it: the text serializeRuleFile returns
\* holds no carriage return, whatever the mapping and the body, a body with
\* \r\n or with a lone \r included.
C17_AsStated ==
  (Serialized /\ out.kind = "text") => ~Includes(out.text, <<"\r">>)


Reparsed == op = "serializeRuleFile" /\ pc \in {"parsed", "reserialized"}

Reserialized == op = "serializeRuleFile" /\ pc = "reserialized"

\* C18 as the specification states it: parsing the text serializeRuleFile
\* returns gives back the mapping (same keys in the same order, same values
\* and value types) and the body up to the trailing newline, and serializing
\* that parse again gives the same text.
C18_AsStated ==
  /\ Reparsed =>
       /\ reparsed.kind = "ok"
       /\ reparsed.data.kind = "object"
       /\ reparsed.data.fm = inFm
       /\ reparsed.content \in {inText, BodyWithNewline(inText)}
  /\ Reserialized => back = out


-----------------------------------------------------------------------------
\* Key order, checked under SpecConvert.

\* The keys of a mapping in its iteration order, each as YAML writes it (a
\* key that reads as a number is quoted).
KeySeq(o) == [i \in 1..Len(o) |-> DumpString(o[i].k)]

\* The keys of the lines between the delimiters of a serialized rule, in the
\* order of the lines.
OutputKeys(text) ==
  LET ls == SplitLines(text)
      closes == {i \in 2..Len(ls) : ls[i] = S_delim}
  IN IF ls[1] # S_delim \/ closes = {} THEN <<>>
     ELSE [i \in 1..(MinOf(closes) - 2) |-> SliceTo(ls[i + 1], IndexOf(ls[i + 1], <<":">>))]

\* The source front-matter handed to the mapper.
SourceFm == OwnEntries(SourceParse.data)

\* The mapping the mapper that ran returns for the source front-matter.
MappedFm ==
  IF mapperRun = "mapCursorToWindsurf" THEN mapCursorToWindsurf(SourceFm).fm
  ELSE mapWindsurfToCursor(SourceFm).fm

Position(ks, k) == CHOOSE i \in 1..Len(ks) : ks[i] = k

\* Two keys that are in both sequences come in the same order in both.
SameRelativeOrder(source, output) ==
  \A i, j \in 1..Len(source) :
    (i < j /\ \E m \in 1..Len(output) : output[m] = source[i]
           /\ \E n \in 1..Len(output) : output[n] = source[j])
      => Position(output, source[i]) < Position(output, source[j])

\* C16 as the specification states it: the converted text has one line per
\* entry of the mapped front-matter in that mapping's order, and every key
\* carried over from the source (pass-through keys, description, globs) comes
\* in the same relative order as in the source.
C16_AsStated ==
  (Converted /\ out.kind = "text") =>
    /\ OutputKeys(out.text) = KeySeq(MappedFm)
    /\ SameRelativeOrder(KeySeq(SourceFm), OutputKeys(out.text))

-----------------------------------------------------------------------------
\* Properties of parseRuleFileContent, checked under SpecParse.

Parsed == pc = "done" /\ op = "parseRuleFileContent"

EmptyMapping == YamlObject(<<>>)

NoEngineText == MatchAt(inText, S_delim \o S_toml, 0)

-----------------------------------------------------------------------------
\* The order of the checks of convertRuleContent, under SpecConvert.

S_triggerBogus == Doc(<<KeyLine(K_trigger, S_bogus)>>, S_body)

\* C26: convertRuleContent reports the first failure in the order parse error
\* (E03, also with a forced format), undetermined format (E01), mismatch of
\* format and direction (E01), mapping error (E02): E03 is the outcome
\* whenever the source does not parse, the undetermined-format error whenever
\* it parses and an unforced detection answers unknown, the mismatch error
\* whenever a known format does not match the direction, and E02 only after
\* all three checks have passed and the mapper has run; a Windsurf rule with
\* an invalid trigger converted in direction cw fails with the mismatch error.
C26_FirstFailureInOrder ==
  Converted =>
    /\ SourceParse.kind = "error" => (out = SourceParse.err /\ out.code = "E03")
    /\ (SourceParse.kind = "ok" /\ forceFormat = "" /\ Detection = RetFormat("unknown"))
         => out = UnknownFormatError
    /\ (SourceParse.kind = "ok" /\ EffectiveFormat \in {"cursor", "windsurf"}
        /\ ~DirectionMatches)
         => out = MismatchError
    /\ (out.kind = "error" /\ out.code = "E02")
         => /\ SourceParse.kind = "ok"
            /\ EffectiveFormat \in {"cursor", "windsurf"}
            /\ DirectionMatches
            /\ mapperRun = "mapWindsurfToCursor"
    /\ (inText = S_triggerBogus /\ direction = "cw" /\ forceFormat \in {"", "windsurf"})
         => (out = MismatchError /\ out.code = "E01")

\* A rule with `trigger: bogus`, which mapWindsurfToCursor refuses with E02,
\* is converted in direction cw without a forced format: E01, no mapper.
C26_Witness ==
  /\ Converted
  /\ inText = S_triggerBogus
  /\ direction = "cw"
  /\ forceFormat = ""
  /\ out.code = "E01"
  /\ out.tmpl = MismatchError.tmpl
  /\ mapperRun = "none"
  /\ mapWindsurfToCursor(SourceParse.data.fm).kind = "error"


-----------------------------------------------------------------------------
\* The mappers one after the other, under SpecMap.

\* C27: the front-matter mapCursorToWindsurf returns always has one of the four
\* known triggers, a truthy globs when the trigger is glob and a truthy
\* description when it is model_decision, so mapWindsurfToCursor applied to it
\* returns a front-matter and never throws.
C27_MappedBackNeverThrows ==
  /\ (pc \in {"done", "back"} /\ op = "mapCursorToWindsurf") =>
       /\ out.kind = "fm"
       /\ Get(out.fm, K_trigger) \in KnownTriggers
       /\ Get(out.fm, K_trigger) = Str(S_glob) => Truthy(Get(out.fm, K_globs))
       /\ Get(out.fm, K_trigger) = Str(S_model_decision) => Truthy(Get(out.fm, K_description))
  /\ (pc = "back" /\ op = "mapCursorToWindsurf") => back.kind = "fm"

\* A Cursor front-matter whose globs is the empty string and whose description
\* is set maps to model_decision, and comes back as a Cursor front-matter.
C27_Witness ==
  /\ pc = "back"
  /\ op = "mapCursorToWindsurf"
  /\ Get(inFm, K_globs) = Str(<<>>)
  /\ Get(out.fm, K_trigger) = Str(S_model_decision)
  /\ back.kind = "fm"
  /\ Get(back.fm, K_alwaysApply) = Bool(FALSE)


-----------------------------------------------------------------------------
\* The format detected in converted text, under SpecConvert.

TargetFormat == IF direction = "cw" THEN "windsurf" ELSE "cursor"

\* C28 as the specification states it: detectFormat applied to the text of a
\* successful conversion answers the target format of the direction, windsurf
\* after cw and cursor after wc, whatever the source holds.
C28_AsStated ==
  (pc = "detected" /\ op = "convertRuleContent") => back = RetFormat(TargetFormat)

-----------------------------------------------------------------------------
\* node:path, as src/src/index.ts uses it on POSIX paths.  A path is text.

S_slash == <<"/">>

S_dot == <<".">>

S_md == <<".", "m", "d">>

S_mdc == <<".", "m", "d", "c">>

\* The 1-based position of the last occurrence of character c in t, 0 if none.
LastIndexOfChar(t, c) ==
  IF \E i \in 1..Len(t) : t[i] = c
    THEN MaxOf({i \in 1..Len(t) : t[i] = c})
    ELSE 0

\* basename(p)
Basename(p) == SubSeq(p, LastIndexOfChar(p, "/") + 1, Len(p))

\* dirname(p): "." for a path without a directory part.
Dirname(p) ==
  IF LastIndexOfChar(p, "/") = 0 THEN S_dot
  ELSE IF LastIndexOfChar(p, "/") = 1 THEN S_slash
  ELSE SubSeq(p, 1, LastIndexOfChar(p, "/") - 1)

\* extname(p): from the last dot of the base name, unless the base name starts
\* with that dot.
Extname(p) ==
  IF LastIndexOfChar(Basename(p), ".") <= 1 THEN <<>>
  ELSE SubSeq(Basename(p), LastIndexOfChar(Basename(p), "."), Len(Basename(p)))

\* basename(p, extname(p)), which is also parse(p).name
PathName(p) == SubSeq(Basename(p), 1, Len(Basename(p)) - Len(Extname(p)))

\* parse(p): dir is empty for a path without a directory part.
ParsePath(p) ==
  [dir |-> IF LastIndexOfChar(p, "/") = 0 THEN <<>> ELSE Dirname(p),
   base |-> Basename(p),
   ext |-> Extname(p),
   name |-> PathName(p)]

\* join(a, b): empty and "." segments vanish.
Join(a, b) ==
  IF a = <<>> \/ a = S_dot THEN (IF b = <<>> THEN S_dot ELSE b)
  ELSE IF b = <<>> \/ b = S_dot THEN a
  ELSE a \o S_slash \o b

\* relative(from, to) for a path below from.
Relative(from, to) ==
  IF MatchAt(to, from \o S_slash, 0) THEN SliceFrom(to, Len(from) + 1) ELSE to

LowerChar(c) ==
  CASE c = "M" -> "m" [] c = "D" -> "d" [] c = "C" -> "c" [] OTHER -> c

\* String.prototype.toLowerCase on the letters of an extension
ToLowerCase(t) == [i \in 1..Len(t) |-> LowerChar(t[i])]

\* The directory and the directories above it, as mkdir(recursive) meets them.
Ancestors(dir) ==
  {SubSeq(dir, 1, i) : i \in {j \in 1..Len(dir) : j = Len(dir) \/ dir[j + 1] = "/"}}

-----------------------------------------------------------------------------
\* node:fs/promises on the file system of the model.

\* readFile(path, 'utf-8')
ReadFile(f, path) ==
  IF path \in f.dirs THEN [kind |-> "EISDIR", text |-> <<>>]
  ELSE IF path \notin DOMAIN f.files THEN [kind |-> "ENOENT", text |-> <<>>]
  ELSE IF path \in f.denied THEN [kind |-> "EACCES", text |-> <<>>]
  ELSE [kind |-> "ok", text |-> f.files[path]]

\* The directories mkdir cannot make: a path the process may not create, or
\* the path of a file.
Blocked(f, dir) ==
  {a \in Ancestors(dir) : a \notin f.dirs /\ (a \in f.denied \/ a \in DOMAIN f.files)}

\* mkdir(dir, { recursive: true }): the directories above the first one that
\* cannot be made are made.
Mkdir(f, dir) ==
  IF Blocked(f, dir) = {}
    THEN [ok |-> TRUE, fs |-> [f EXCEPT !.dirs = @ \cup Ancestors(dir)]]
    ELSE [ok |-> FALSE,
          fs |-> [f EXCEPT !.dirs = @ \cup {a \in Ancestors(dir) :
                                     \A b \in Blocked(f, dir) : Len(a) < Len(b)}]]

\* writeFile(path, content, 'utf-8')
WriteFile(f, path, content) ==
  IF path \in f.denied \/ path \in f.dirs \/ Dirname(path) \notin f.dirs \cup {S_dot}
    THEN [ok |-> FALSE, fs |-> f]
    ELSE [ok |-> TRUE,
          fs |-> [f EXCEPT !.files =
                    [p \in DOMAIN f.files \cup {path} |->
                       IF p = path THEN content ELSE f.files[p]]]]

-----------------------------------------------------------------------------
\* convertFile and its helpers (src/src/index.ts).

\* A returned path.
RetPath(p) == [NoOut EXCEPT !.kind = "path", !.text = p]

\* A direction the helper settled on.
RetDirection(d) == [NoOut EXCEPT !.kind = "direction", !.format = d]

DirectionOfFormat(format) == IF format = "cursor" THEN "cw" ELSE "wc"

\* The direction for a detected format; what detectFormat throws is thrown on.
DirectionDetected(detected, path) ==
  IF detected.kind # "format" THEN detected
  ELSE IF detected.format \in {"cursor", "windsurf"}
    THEN RetDirection(DirectionOfFormat(detected.format))
  ELSE ConversionError(
         "Could not auto-detect format for ${sourcePath}. Please specify direction or use --force.",
         <<path>>, "E01")

\* _determineConversionDirection asking forceFormat before options.direction.
DetermineConversionDirection_ForceFirst(sourceContent, path, optionsDirection, force) ==
  IF force # "" THEN RetDirection(DirectionOfFormat(force))
  ELSE IF optionsDirection # "" THEN RetDirection(optionsDirection)
  ELSE DirectionDetected(detectFormat(sourceContent, YamlUndefined), path)

\* _determineConversionDirection; the empty string stands for an option that
\* is not given.
DetermineConversionDirection(sourceContent, path, optionsDirection, force) ==
  IF optionsDirection # "" THEN RetDirection(optionsDirection)
  ELSE IF force # "" THEN RetDirection(DirectionOfFormat(force))
  ELSE DirectionDetected(detectFormat(sourceContent, YamlUndefined), path)

NewExtension(dir) == IF dir = "cw" THEN S_md ELSE S_mdc

\* _resolveDestinationPath; the empty path stands for no destination.
ResolveDestinationPath(f, path, actualDirection, destination) ==
  IF destination # <<>>
    THEN IF destination \in f.dirs
           THEN Join(destination, PathName(Basename(path)) \o NewExtension(actualDirection))
           ELSE destination
    ELSE Join(ParsePath(path).dir, ParsePath(path).name \o NewExtension(actualDirection))

S_writeFailed == "Failed to write output file ${destinationPath}: ${message}"

\* _writeFile, after its mkdir
WriteAfterMkdir(made, destination, content) ==
  IF made.ok /\ WriteFile(made.fs, destination, content).ok
    THEN [out |-> RetPath(destination), fs |-> WriteFile(made.fs, destination, content).fs]
    ELSE [out |-> ConversionError(S_writeFailed, <<destination>>, "E03"),
          fs |-> made.fs]

\* _writeFile
WriteOutput(f, destination, content) ==
  WriteAfterMkdir(Mkdir(f, Dirname(destination)), destination, content)

\* convertFile writing the output in a dry run as well.
ConvertFileTo_Always(f, final, content, dry) == WriteOutput(f, final, content)

\* convertFile from the resolved destination on
ConvertFileTo(f, final, content, dry) ==
  IF dry THEN [out |-> RetPath(final), fs |-> f]
  ELSE WriteOutput(f, final, content)

\* convertFile opening the output file before it looks at the conversion: a
\* failed conversion leaves an empty file.
ConvertFileConverted_OpenFirst(f, path, destination, dry, actualDirection, converted) ==
  IF converted.kind # "text"
    THEN [out |-> converted,
          fs |-> ConvertFileTo(f, ResolveDestinationPath(f, path, actualDirection, destination),
                               <<>>, dry).fs]
  ELSE ConvertFileTo(f, ResolveDestinationPath(f, path, actualDirection, destination),
                     converted.text, dry)

\* convertFile from the call of convertString on
ConvertFileConverted(f, path, destination, dry, actualDirection, converted) ==
  IF converted.kind # "text" THEN [out |-> converted, fs |-> f]
  ELSE ConvertFileTo(f, ResolveDestinationPath(f, path, actualDirection, destination),
                     converted.text, dry)

\* convertFile from the settled direction on
ConvertFileDirected(f, path, destination, force, dry, content, settled) ==
  IF settled.kind # "direction" THEN [out |-> settled, fs |-> f]
  ELSE ConvertFileConverted(f, path, destination, dry, settled.format,
                            convertString(content, settled.format, force).out)

\* convertFile from the read content on
ConvertFileRead(f, path, destination, optionsDirection, force, dry, read) ==
  IF read.kind = "ENOENT"
    THEN [out |-> ConversionError("Input file not found: ${sourcePath}", <<path>>, "E03"),
          fs |-> f]
  ELSE IF read.kind # "ok" THEN [out |-> OtherError(read.kind), fs |-> f]
  ELSE ConvertFileDirected(f, path, destination, force, dry, read.text,
         DetermineConversionDirection(read.text, path, optionsDirection, force))

\* convertFile(sourcePath, destinationPath, { direction, forceFormat, dryRun }):
\* what it returns or throws, and the file system it leaves.
convertFile(f, path, destination, optionsDirection, force, dry) ==
  ConvertFileRead(f, path, destination, optionsDirection, force, dry, ReadFile(f, path))

-----------------------------------------------------------------------------
\* Calls of convertFile.

D_in == <<"i", "n">>

D_out == <<"o", "u", "t">>

D_new == <<"n", "e", "w">>

F_aMdc == D_in \o S_slash \o <<"a">> \o S_mdc

F_bMd == D_in \o S_slash \o <<"b">> \o S_md

F_new == D_new \o S_slash \o <<"x">> \o S_md

S_old == <<"O", "l", "d">>

CursorText == Doc(<<KeyLine(K_alwaysApply, S_true)>>, S_body)

WindsurfText == Doc(<<KeyLine(K_trigger, S_manual)>>, S_body)

\* A Windsurf rule the mapper rejects: trigger glob without globs.
GlobOnlyText == Doc(<<KeyLine(K_trigger, S_glob)>>, S_body)

\* Rule texts: a Cursor rule, a Windsurf rule, a text of neither format, a
\* front-matter that does not parse, a rule the mapper rejects, and a
\* front-matter that is a scalar.
FileTexts == {CursorText, WindsurfText, S_body, MalformedDoc, GlobOnlyText, ScalarDoc}

\* The paths convertFile may write for a source and a destination argument.
Candidates(dirs, path, destination) ==
  {ResolveDestinationPath([dirs |-> dirs], path, d, destination) : d \in {"cw", "wc"}}

\* The file system of a convertFile call: the source file unless it is
\* missing; with pre, old files where the output may go; den names what the
\* process is denied, reading the source or writing the output.
FileSystem(path, destination, entry, pre, den) ==
  [files |-> [p \in (IF pre THEN Candidates({D_in, D_out}, path, destination) ELSE {})
                    \cup (IF entry = <<>> THEN {} ELSE {path}) |->
                IF p = path /\ entry # <<>> THEN entry ELSE S_old],
   dirs |-> {D_in, D_out} \cup (IF pre THEN {D_new} ELSE {}),
   denied |-> CASE den = "read" -> {path}
                [] den = "write" -> Candidates({D_in, D_out}, path, destination) \cup {D_new}
                [] OTHER -> {},
   order |-> <<>>]

NoTextState ==
  /\ inFm = <<>>
  /\ inText = <<>>
  /\ inData = NoData
  /\ filePath = <<>>
  /\ mapperRun = "none"
  /\ back = NoOut
  /\ reparsed = NoParse

FileInit ==
  /\ pc = "start"
  /\ op = "none"
  /\ NoTextState
  /\ out = NoOut
  /\ sourcePath \in {F_aMdc, F_bMd}
  /\ destinationPath \in {<<>>, D_out, F_new}
  /\ direction \in {"", "cw", "wc"}
  /\ forceFormat \in {"", "cursor", "windsurf"}
  /\ dryRun \in BOOLEAN
  /\ reverse = FALSE
  /\ results = <<>>
  /\ \E entry \in FileTexts \cup {<<>>}, pre \in BOOLEAN, den \in {"", "read", "write"} :
       fs = FileSystem(sourcePath, destinationPath, entry, pre, den)

\* convertFile(sourcePath, destinationPath, { direction, forceFormat, dryRun })
CallConvertFile ==
  /\ pc = "start"
  /\ pc' = "done"
  /\ op' = "convertFile"
  /\ \E done \in {convertFile(fs, sourcePath, destinationPath, direction, forceFormat, dryRun)} :
       /\ out' = done.out
       /\ fs' = done.fs
  /\ UNCHANGED <<inFm, inText, inData, direction, forceFormat, filePath, mapperRun, back,
                 reparsed, sourcePath, destinationPath, dryRun, reverse, results>>

FileNext == CallConvertFile

SpecFile == FileInit /\ [][FileNext]_vars

-----------------------------------------------------------------------------
\* The direction convertFile converts in, under SpecFile.

\* A step of convertFile on a source file it can read.
ConvertFileReads ==
  /\ pc = "start"
  /\ op' = "convertFile"
  /\ ReadFile(fs, sourcePath).kind = "ok"

\* The step shows the outcome `converted` of converting in direction d: a
\* failed conversion is thrown as it is and nothing is written; otherwise the
\* derived output path carries the extension of d and, unless the run is dry
\* or the write fails with E03, the file at the returned path holds the text.
RanDirection(d, converted) ==
  IF converted.kind # "text" THEN out' = converted /\ fs' = fs
  ELSE /\ out'.kind \in {"path", "error"}
       /\ out'.kind = "error" => out'.code = "E03" /\ ~dryRun
       /\ out'.kind = "path" =>
            /\ destinationPath \in {<<>>, D_out} => Extname(out'.text) = NewExtension(d)
            /\ ~dryRun => fs'.files[out'.text] = converted.text
            /\ dryRun => fs' = fs

Ran(d) == RanDirection(d, convertString(fs.files[sourcePath], d, forceFormat).out)

\* C25: convertFile converts in options.direction when it is given; otherwise
\* cw for forceFormat cursor and wc for forceFormat windsurf; otherwise cw or
\* wc as detectFormat answers cursor or windsurf for the content; and when
\* detectFormat answers unknown it throws ConversionError E01 and leaves the
\* file system as it was.
C25_DirectionResolved ==
  [][ConvertFileReads =>
       /\ direction # "" => Ran(direction)
       /\ (direction = "" /\ forceFormat = "cursor") => Ran("cw")
       /\ (direction = "" /\ forceFormat = "windsurf") => Ran("wc")
       /\ (direction = "" /\ forceFormat = ""
             /\ detectFormat(fs.files[sourcePath], YamlUndefined) = RetFormat("cursor"))
            => Ran("cw")
       /\ (direction = "" /\ forceFormat = ""
             /\ detectFormat(fs.files[sourcePath], YamlUndefined) = RetFormat("windsurf"))
            => Ran("wc")
       /\ (direction = "" /\ forceFormat = ""
             /\ detectFormat(fs.files[sourcePath], YamlUndefined) = RetFormat("unknown"))
            => /\ out'.kind = "error"
               /\ out'.code = "E01"
               /\ fs' = fs]_vars

\* A text of neither format, converted with no direction and no forced format
\* into a destination that holds an old file: E01, and the old file stays.
C25_Witness ==
  /\ pc = "done"
  /\ op = "convertFile"
  /\ direction = ""
  /\ forceFormat = ""
  /\ ~dryRun
  /\ out.kind = "error"
  /\ out.code = "E01"
  /\ fs.files[sourcePath] = S_body
  /\ \E p \in DOMAIN fs.files : p # sourcePath /\ fs.files[p] = S_old

-----------------------------------------------------------------------------
\* Failed conversions and the file system, under SpecFile.

\* What convertFile gets for the content of the source file: the error of the
\* direction helper, or what convertString returns or throws.
Conversion(settled, content, force) ==
  IF settled.kind # "direction" THEN settled
  ELSE convertString(content, settled.format, force).out

ConversionOfSource ==
  Conversion(DetermineConversionDirection(fs.files[sourcePath], sourcePath, direction, forceFormat),
             fs.files[sourcePath], forceFormat)

\* C21: when the conversion of the content fails (the front-matter does not
\* parse, the format is not detected, the format does not match the direction,
\* or the mapper rejects the front-matter), convertFile throws that error, which
\* carries no text, and the file system after the call is the file system
\* before it: no file is written and no directory is made.  The only failure
\* of convertFile that may leave a trace is the failed write itself.
C21_FailedConversionWritesNothing ==
  [][ConvertFileReads =>
       /\ ConversionOfSource.kind # "text" =>
            /\ out' = ConversionOfSource
            /\ out'.text = <<>>
            /\ fs' = fs
       /\ (out'.kind # "path" /\ out'.tmpl # S_writeFailed) => fs' = fs]_vars

\* A Windsurf rule the mapper rejects with E02, converted for real into a
\* place that holds an old file, which is still there.
C21_Witness ==
  /\ pc = "done"
  /\ op = "convertFile"
  /\ ~dryRun
  /\ out.kind = "error"
  /\ out.code = "E02"
  /\ fs.denied = {}
  /\ fs.files[sourcePath] = GlobOnlyText
  /\ \E p \in DOMAIN fs.files : p # sourcePath /\ fs.files[p] = S_old

-----------------------------------------------------------------------------
\* convertDirectory (src/src/index.ts).

\* One ConvertDirectoryResult; error is NoOut and content is empty when the
\* field is not set, and content holds the one text when it is.
Result(source, destination, status, error, content) ==
  [sourcePath |-> source, destinationPath |-> destination, status |-> status,
   error |-> error, content |-> content]

\* error instanceof ConversionError ? error : new ConversionError(error.message, code)
AsConversionError(error, code) ==
  IF error.kind = "error" THEN error ELSE ConversionError(error.tmpl, <<>>, code)

\* The direction of one file when neither direction nor forceFormat is given,
\* from what readFile gave: a read or a detection that throws is reported as
\* E003, a format that is neither cursor nor windsurf as E001.
DetectedDirection(read, detected, file) ==
  IF read.kind # "ok" \/ detected.kind # "format"
    THEN ConversionError("Failed to read file for format detection ${sourceFilePath}: ${error.message}",
                         <<file>>, "E003")
  ELSE IF detected.format \in {"cursor", "windsurf"}
    THEN RetDirection(DirectionOfFormat(detected.format))
  ELSE ConversionError("Could not auto-detect format for ${sourceFilePath}.", <<file>>, "E001")

\* fileSpecificDirection, or formatDetectionError
FileSpecificDirection(f, file, optionsDirection, force) ==
  IF optionsDirection = "" /\ force = ""
    THEN DetectedDirection(ReadFile(f, file),
                           IF ReadFile(f, file).kind = "ok"
                             THEN detectFormat(ReadFile(f, file).text, YamlUndefined)
                             ELSE NoOut,
                           file)
  ELSE IF optionsDirection = "" THEN RetDirection(DirectionOfFormat(force))
  ELSE RetDirection(optionsDirection)

ExpectedInputExtension(dir) == IF dir = "cw" THEN S_mdc ELSE S_md

\* The destination without the directory part of the relative path.
DestinationFilePath_Flat(sourceDir, destinationDir, file, dir) ==
  Join(destinationDir, ParsePath(file).name \o NewExtension(dir))

\* join(destinationDir, dirname(relativePath), name + newExtension)
DestinationFilePath(sourceDir, destinationDir, file, dir) ==
  Join(Join(destinationDir, Dirname(Relative(sourceDir, file))),
       ParsePath(file).name \o NewExtension(dir))

\* The dry-run branch, from what readFile gave
DryRunResult(f, file, destination, dir, force, read) ==
  IF read.kind # "ok"
    THEN [result |-> Result(file, destination, "error",
                            ConversionError(read.kind, <<>>, "E003"), <<>>),
          fs |-> f]
  ELSE IF convertString(read.text, dir, force).out.kind # "text"
    THEN [result |-> Result(file, destination, "error",
                            AsConversionError(convertString(read.text, dir, force).out, "E003"),
                            <<>>),
          fs |-> f]
  ELSE [result |-> Result(file, destination, "skipped", NoOut,
                          <<convertString(read.text, dir, force).out.text>>),
        fs |-> f]

\* The branch that converts, from what convertFile returned or threw
ConvertedResult(file, destination, done) ==
  IF done.out.kind = "path"
    THEN [result |-> Result(file, destination, "converted", NoOut, <<>>), fs |-> done.fs]
    ELSE [result |-> Result(file, destination, "error", AsConversionError(done.out, "E03"), <<>>),
          fs |-> done.fs]

S_noSubdirectory == "Could not create subdirectory for ${destinationFilePath}: ${error.message}"

\* The loop body from the mkdir of the output subdirectory on
ProcessMade(made, file, destination, dir, force, dry) ==
  IF ~made.ok
    THEN [result |-> Result(file, destination, "error",
                            ConversionError(S_noSubdirectory, <<destination>>, "E003"),
                            <<>>),
          fs |-> made.fs]
  ELSE IF dry THEN DryRunResult(made.fs, file, destination, dir, force, ReadFile(made.fs, file))
  ELSE ConvertedResult(file, destination,
                       convertFile(made.fs, file, destination, dir, force, FALSE))

\* The loop body without the extension check.
ProcessDirected_Unchecked(f, sourceDir, destinationDir, file, dir, force, dry) ==
  ProcessMade(Mkdir(f, Dirname(DestinationFilePath(sourceDir, destinationDir, file, dir))),
              file, DestinationFilePath(sourceDir, destinationDir, file, dir),
              dir, force, dry)

\* The loop body from the extension check on
ProcessDirected(f, sourceDir, destinationDir, file, dir, force, dry) ==
  IF ToLowerCase(ParsePath(file).ext) # ExpectedInputExtension(dir)
    THEN [result |-> Result(file, Join(destinationDir, Relative(sourceDir, file)), "skipped",
                            ConversionError("File extension ${ext} does not match expected input extension ${expectedInputExtension} for conversion direction '${fileSpecificDirection}'.",
                                            <<ParsePath(file).ext, ExpectedInputExtension(dir)>>,
                                            "E004"),
                            <<>>),
          fs |-> f]
  ELSE ProcessMade(Mkdir(f, Dirname(DestinationFilePath(sourceDir, destinationDir, file, dir))),
                   file, DestinationFilePath(sourceDir, destinationDir, file, dir),
                   dir, force, dry)

\* The loop body from the settled direction on
ProcessSettled(f, sourceDir, destinationDir, file, settled, force, dry) ==
  IF settled.kind # "direction"
    THEN [result |-> Result(file, Join(destinationDir, Relative(sourceDir, file)), "error",
                            settled, <<>>),
          fs |-> f]
  ELSE ProcessDirected(f, sourceDir, destinationDir, file, settled.format, force, dry)

\* One turn of the loop over potentialFiles: the result pushed and the file
\* system left.
ProcessFile(f, sourceDir, destinationDir, file, optionsDirection, force, dry) ==
  ProcessSettled(f, sourceDir, destinationDir, file,
                 FileSpecificDirection(f, file, optionsDirection, force), force, dry)

\* fastGlob(join(sourceDir, '**/*.{md,mdc}'), { onlyFiles: true, dot: true })
IsPotentialFile(f, sourceDir, p) ==
  /\ p \in DOMAIN f.files
  /\ MatchAt(p, sourceDir \o S_slash, 0)
  /\ Extname(p) \in {S_md, S_mdc}

PotentialFiles(f, sourceDir) ==
  SelectSeq(f.order, LAMBDA p : IsPotentialFile(f, sourceDir, p))

PushResult(one, rest) == [results |-> <<one.result>> \o rest.results, fs |-> rest.fs]

RECURSIVE ConvertEach(_, _, _, _, _, _, _)

\* The loop leaving at the first file whose result is an error.
ConvertRest_StopAtError(one, files, sourceDir, destinationDir, optionsDirection, force, dry) ==
  IF one.result.status = "error" THEN [results |-> <<one.result>>, fs |-> one.fs]
  ELSE PushResult(one, ConvertEach(one.fs, Tail(files), sourceDir, destinationDir,
                                   optionsDirection, force, dry))

ConvertRest(one, files, sourceDir, destinationDir, optionsDirection, force, dry) ==
  PushResult(one, ConvertEach(one.fs, Tail(files), sourceDir, destinationDir,
                              optionsDirection, force, dry))

\* The loop over potentialFiles
ConvertEach(f, files, sourceDir, destinationDir, optionsDirection, force, dry) ==
  IF files = <<>> THEN [results |-> <<>>, fs |-> f]
  ELSE ConvertRest(ProcessFile(f, sourceDir, destinationDir, Head(files),
                               optionsDirection, force, dry),
                   files, sourceDir, destinationDir, optionsDirection, force, dry)

\* A returned array of results.
RetResults == [NoOut EXCEPT !.kind = "results"]

Returned(done) == [out |-> RetResults, results |-> done.results, fs |-> done.fs]

\* convertDirectory from the mkdir of destinationDir on
ConvertDirectoryMade(made, sourceDir, destinationDir, optionsDirection, force, dry) ==
  IF ~made.ok
    THEN [out |-> ConversionError("Could not create output directory ${destinationDir}: ${message}",
                                  <<destinationDir>>, "E003"),
          results |-> <<>>, fs |-> made.fs]
  ELSE Returned(ConvertEach(made.fs, PotentialFiles(made.fs, sourceDir), sourceDir,
                            destinationDir, optionsDirection, force, dry))

\* convertDirectory(sourceDir, destinationDir, { direction, forceFormat, dryRun }):
\* what it returns or throws, the results, and the file system it leaves.
convertDirectory(f, sourceDir, destinationDir, optionsDirection, force, dry) ==
  IF sourceDir \in DOMAIN f.files
    THEN [out |-> ConversionError("Input path is not a directory: ${sourceDir}", <<sourceDir>>, "E003"),
          results |-> <<>>, fs |-> f]
  ELSE IF sourceDir \notin f.dirs
    THEN [out |-> ConversionError("Input directory not found: ${sourceDir}", <<sourceDir>>, "E003"),
          results |-> <<>>, fs |-> f]
  ELSE ConvertDirectoryMade(Mkdir(f, destinationDir), sourceDir, destinationDir,
                            optionsDirection, force, dry)

-----------------------------------------------------------------------------
\* Calls of convertDirectory.

D_sub == <<"s", "u", "b">>

F_aMd == D_in \o S_slash \o <<"a">> \o S_md

F_subA == D_in \o S_slash \o D_sub \o S_slash \o <<"a">> \o S_md

\* A file that is no rule file.
F_note == D_in \o S_slash \o <<"n", ".", "t", "x", "t">>

F_outAMd == D_out \o S_slash \o <<"a">> \o S_md

F_outAMdc == D_out \o S_slash \o <<"a">> \o S_mdc

\* The content of each source file of a directory; the empty text stands for
\* a file that does not exist.
DirectoryEntries ==
  [a : {<<>>, CursorText, WindsurfText, S_body, MalformedDoc},
   b : {<<>>, WindsurfText, CursorText, GlobOnlyText, ScalarDoc},
   c : {<<>>, WindsurfText, CursorText}]

EntryAt(e, p) ==
  CASE p = F_aMdc -> e.a
    [] p = F_aMd -> e.b
    [] p = F_subA -> e.c
    [] OTHER -> S_old

\* The surroundings of a call: the two directory arguments, whether the
\* destination directory exists, old files in it, what the process is denied,
\* and whether the walk meets the files in reverse order.
Scenario(source, destination, exists, old, denied, rev) ==
  [source |-> source, destination |-> destination, exists |-> exists, old |-> old,
   denied |-> denied, rev |-> rev]

Scenarios ==
  {Scenario(D_in, D_out, TRUE, {}, {}, FALSE),
   Scenario(D_in, D_out, TRUE, {F_outAMd, F_outAMdc}, {}, TRUE),
   Scenario(D_in, D_in, TRUE, {}, {}, FALSE),
   Scenario(D_in, D_in, TRUE, {}, {}, TRUE),
   \* a source file that cannot be read
   Scenario(D_in, D_out, TRUE, {}, {F_aMd}, FALSE),
   Scenario(D_in, D_out, TRUE, {}, {F_aMdc}, FALSE),
   \* an output subdirectory that cannot be made
   Scenario(D_in, D_out, TRUE, {}, {D_out \o S_slash \o D_sub}, FALSE),
   \* output files that cannot be written
   Scenario(D_in, D_out, TRUE, {F_outAMd}, {F_outAMd, F_outAMdc}, FALSE),
   \* a destination directory to be made, and one that cannot be made
   Scenario(D_in, D_new, FALSE, {}, {}, FALSE),
   Scenario(D_in, D_new, FALSE, {}, {D_new}, FALSE),
   \* a source that does not exist, and one that is a file
   Scenario(D_sub, D_out, TRUE, {}, {}, FALSE),
   Scenario(F_aMdc, D_out, TRUE, {}, {}, FALSE)}

WalkOrder == <<F_aMd, F_aMdc, F_note, F_subA>>

DirectoryFileSystem(e, s) ==
  [files |-> [p \in {q \in {F_aMdc, F_aMd, F_subA} : EntryAt(e, q) # <<>>}
                    \cup {F_note} \cup s.old |-> EntryAt(e, p)],
   dirs |-> {D_in, D_in \o S_slash \o D_sub} \cup (IF s.exists THEN {s.destination} ELSE {}),
   denied |-> s.denied,
   order |-> IF s.rev THEN Reverse(WalkOrder) ELSE WalkOrder]

DirectoryInit ==
  /\ pc = "start"
  /\ op = "none"
  /\ NoTextState
  /\ out = NoOut
  /\ direction \in {"", "cw", "wc"}
  /\ forceFormat \in {"", "cursor", "windsurf"}
  /\ dryRun \in BOOLEAN
  /\ reverse = FALSE
  /\ results = <<>>
  /\ \E e \in DirectoryEntries, s \in Scenarios :
       /\ sourcePath = s.source
       /\ destinationPath = s.destination
       /\ fs = DirectoryFileSystem(e, s)

\* convertDirectory(sourcePath, destinationPath, { direction, forceFormat, dryRun })
CallConvertDirectory ==
  /\ pc = "start"
  /\ pc' = "done"
  /\ op' = "convertDirectory"
  /\ \E done \in {convertDirectory(fs, sourcePath, destinationPath, direction, forceFormat,
                                    dryRun)} :
       /\ out' = done.out
       /\ results' = done.results
       /\ fs' = done.fs
  /\ UNCHANGED <<inFm, inText, inData, direction, forceFormat, filePath, mapperRun, back,
                 reparsed, sourcePath, destinationPath, dryRun, reverse>>

DirectoryNext == CallConvertDirectory

SpecDirectory == DirectoryInit /\ [][DirectoryNext]_vars

-----------------------------------------------------------------------------
\* The extension check of convertDirectory, under SpecDirectory.

\* A step of convertDirectory that returns its results.
ConvertDirectoryReturns ==
  /\ pc = "start"
  /\ op' = "convertDirectory"
  /\ out'.kind = "results"

\* The direction convertDirectory settles for a file; asked only for files
\* whose content the call did not change.
DirectionOf(file) == FileSpecificDirection(fs, file, direction, forceFormat)

WrongExtension(file) ==
  /\ DirectionOf(file).kind = "direction"
  /\ Extname(file) # ExpectedInputExtension(DirectionOf(file).format)

\* The direction an output path stands for: .md is written by cw, .mdc by wc.
DirectionOfOutput(p) == IF Extname(p) = S_md THEN "cw" ELSE "wc"

\* The files the step created or changed.
Written == {p \in DOMAIN fs'.files : p \notin DOMAIN fs.files \/ fs'.files[p] # fs.files[p]}

\* C23: a file whose extension is not the input extension of its direction
\* (.mdc for cw, .md for wc) gets the status skipped with error E004 and no
\* content; E004 is reported for no other file; and every file the call
\* creates or changes is the destination of a result with status converted
\* whose source has the input extension of the direction the output stands
\* for.
C23_ExtensionGate ==
  [][ConvertDirectoryReturns =>
       /\ \A i \in 1..Len(results') :
            fs'.files[results'[i].sourcePath] = fs.files[results'[i].sourcePath] =>
              /\ WrongExtension(results'[i].sourcePath) =>
                   /\ results'[i].status = "skipped"
                   /\ results'[i].error.code = "E004"
                   /\ results'[i].content = <<>>
              /\ results'[i].error.code = "E004" => WrongExtension(results'[i].sourcePath)
       /\ \A p \in Written :
            \E i \in 1..Len(results') :
              /\ results'[i].status = "converted"
              /\ results'[i].destinationPath = p
              /\ Extname(results'[i].sourcePath) = ExpectedInputExtension(DirectionOfOutput(p))]_vars

\* Direction cw over a directory with in/a.mdc and in/a.md: the .md file is
\* skipped with E004, the .mdc file is converted, and no out/a.mdc exists.
C23_Witness ==
  /\ pc = "done"
  /\ op = "convertDirectory"
  /\ direction = "cw"
  /\ ~dryRun
  /\ \E i \in 1..Len(results) :
       /\ results[i].sourcePath = F_aMd
       /\ results[i].status = "skipped"
       /\ results[i].error.code = "E004"
  /\ \E i \in 1..Len(results) :
       /\ results[i].sourcePath = F_aMdc
       /\ results[i].status = "converted"
  /\ F_outAMd \in DOMAIN fs.files
  /\ F_outAMdc \notin DOMAIN fs.files

-----------------------------------------------------------------------------
\* Errors of single files in convertDirectory, under SpecDirectory.

\* A step of convertDirectory whose source is a directory and whose destination
\* directory exists or can be made.
ConvertDirectorySetUp ==
  /\ pc = "start"
  /\ op' = "convertDirectory"
  /\ sourcePath \in fs.dirs
  /\ Mkdir(fs, destinationPath).ok

\* The files the walk of the step finds.
Discovered == PotentialFiles(fs, sourcePath)

Without(s, i) == SubSeq(s, 1, i - 1) \o SubSeq(s, i + 1, Len(s))

\* The loop over the discovered files without the i-th.
WithoutFile(i) ==
  ConvertEach(Mkdir(fs, destinationPath).fs, Without(Discovered, i), sourcePath,
              destinationPath, direction, forceFormat, dryRun)

\* C22: once the source is a directory and the destination directory is there,
\* convertDirectory returns; the results hold one entry for each discovered
\* file, in the order of the walk, with status converted, skipped or error;
\* and for every file whose entry is an error, the other entries and the
\* files left on disk are those of the same call without that file.
C22_OneResultPerFile ==
  [][ConvertDirectorySetUp =>
       /\ out'.kind = "results"
       /\ Len(results') = Len(Discovered)
       /\ \A i \in 1..Len(results') :
            /\ results'[i].sourcePath = Discovered[i]
            /\ results'[i].status \in {"converted", "skipped", "error"}
            /\ results'[i].status = "error" =>
                 /\ Without(results', i) = WithoutFile(i).results
                 /\ fs'.files = WithoutFile(i).fs.files]_vars

\* Three files: the first fails, the two after it are converted.
C22_Witness ==
  /\ pc = "done"
  /\ op = "convertDirectory"
  /\ out.kind = "results"
  /\ Len(results) = 3
  /\ results[1].status = "error"
  /\ results[2].status = "converted"
  /\ results[3].status = "converted"

-----------------------------------------------------------------------------
\* The two file-level calls together: convertFile and convertDirectory on the
\* paths and file systems of both.

ApiInit == FileInit \/ DirectoryInit

ApiNext == CallConvertFile \/ CallConvertDirectory

SpecApi == ApiInit /\ [][ApiNext]_vars

-----------------------------------------------------------------------------
\* Dry runs, under SpecApi.

\* A dry-run step of the call named.
DryRunOf(name) ==
  /\ pc = "start"
  /\ op' = name
  /\ dryRun

\* What the call of convertFile would return or throw with dryRun false.
RealRun == convertFile(fs, sourcePath, destinationPath, direction, forceFormat, FALSE).out

\* A discovered file that convertDirectory can convert: a direction is
\* settled, the extension is the input extension of the direction, the file
\* can be read and convertString returns a text.
Convertible(file) ==
  /\ DirectionOf(file).kind = "direction"
  /\ Extname(file) = ExpectedInputExtension(DirectionOf(file).format)
  /\ ReadFile(fs, file).kind = "ok"
  /\ convertString(fs.files[file], DirectionOf(file).format, forceFormat).out.kind = "text"

ConvertedText(file) ==
  convertString(fs.files[file], DirectionOf(file).format, forceFormat).out.text

\* C24: a dry run of convertFile or convertDirectory leaves every file as it
\* was, none created and none changed.  The dry run of convertFile returns or
\* throws what the real call does, a failed write apart.  In the results of a
\* dry run of convertDirectory no entry has status converted; a file that
\* converts has status skipped and the converted text as content, unless the
\* subdirectory for its output cannot be made; and no other entry has content.
C24_DryRunWritesNoFile ==
  [][/\ (DryRunOf("convertFile") \/ DryRunOf("convertDirectory")) => fs'.files = fs.files
     /\ DryRunOf("convertFile") => (out' = RealRun \/ RealRun.tmpl = S_writeFailed)
     /\ DryRunOf("convertDirectory") =>
          \A i \in 1..Len(results') :
            /\ results'[i].status # "converted"
            /\ Convertible(results'[i].sourcePath) =>
                 \/ /\ results'[i].status = "skipped"
                    /\ results'[i].error = NoOut
                    /\ results'[i].content = <<ConvertedText(results'[i].sourcePath)>>
                 \/ /\ results'[i].status = "error"
                    /\ results'[i].error.tmpl = S_noSubdirectory
            /\ results'[i].content # <<>> => Convertible(results'[i].sourcePath)]_vars

\* A dry run over a directory whose destination holds an old out/a.md: the
\* entry for in/a.mdc is skipped with the converted text, the old file stays.
C24_Witness ==
  /\ pc = "done"
  /\ op = "convertDirectory"
  /\ dryRun
  /\ \E i \in 1..Len(results) :
       /\ results[i].sourcePath = F_aMdc
       /\ results[i].destinationPath = F_outAMd
       /\ results[i].status = "skipped"
       /\ results[i].content # <<>>
  /\ F_outAMd \in DOMAIN fs.files
  /\ fs.files[F_outAMd] = S_old

-----------------------------------------------------------------------------
\* Destination paths of one convertDirectory call, under SpecDirectory.

F_outSubAMdc == D_out \o S_slash \o D_sub \o S_slash \o <<"a">> \o S_mdc

\* The entry of a file that was converted, or would be in a dry run.
IsConverted(r) == r.status = "converted" \/ (r.status = "skipped" /\ r.content # <<>>)

\* C29: in the results of one convertDirectory call, two different entries of
\* files that were converted, or would be converted in a dry run, never carry
\* the same destination path, with the direction given, inferred from
\* forceFormat or detected for each file.
C29_DistinctDestinations ==
  (pc = "done" /\ op = "convertDirectory") =>
    \A i, j \in 1..Len(results) :
      (i # j /\ IsConverted(results[i]) /\ IsConverted(results[j]))
        => results[i].destinationPath # results[j].destinationPath

\* With the direction detected for each file, in/a.mdc, in/a.md and
\* in/sub/a.md are all converted: to out/a.md, out/a.mdc and out/sub/a.mdc.
C29_Witness ==
  /\ pc = "done"
  /\ op = "convertDirectory"
  /\ direction = ""
  /\ forceFormat = ""
  /\ Len(results) = 3
  /\ \A i \in 1..3 : IsConverted(results[i])
  /\ {results[i].destinationPath : i \in 1..3} = {F_outAMd, F_outAMdc, F_outSubAMdc}

-----------------------------------------------------------------------------
\* The command line in directory mode (src/src/cli.ts): cuws -d <dir> -o <dir>
\* with the flags -r, --force <format> and --dry-run.

\* The direction the dry run hands to convertDirectory: the constant
\* `direction`, wc with -r and cw without.
DryRunDirection(r) == IF r THEN "wc" ELSE "cw"

\* The direction of dirOptionsForConvert: wc with -r, else the one --force
\* stands for, else none.
DirOptionsDirection(r, force) ==
  IF r THEN "wc"
  ELSE IF force # "" THEN DirectionOfFormat(force)
  ELSE ""

\* The direction handed to convertDirectory.
CliDirection(r, force, dry) ==
  IF dry THEN DryRunDirection(r) ELSE DirOptionsDirection(r, force)

\* The process ends with the status given.
Exit(status) == [NoOut EXCEPT !.kind = "exit", !.code = status]

\* Status 1 when convertDirectory throws or a result is an error, else 0.
CliExit(done) ==
  IF done.out.kind # "results" \/ \E i \in 1..Len(done.results) : done.results[i].status = "error"
    THEN Exit("1")
    ELSE Exit("0")

CliInit ==
  /\ pc = "start"
  /\ op = "none"
  /\ NoTextState
  /\ out = NoOut
  /\ direction = ""
  /\ forceFormat \in {"", "cursor", "windsurf"}
  /\ dryRun \in BOOLEAN
  /\ reverse \in BOOLEAN
  /\ results = <<>>
  /\ \E e \in DirectoryEntries, s \in Scenarios :
       /\ sourcePath = s.source
       /\ destinationPath = s.destination
       /\ fs = DirectoryFileSystem(e, s)

\* cuws -d sourcePath -o destinationPath [-r] [--force forceFormat] [--dry-run];
\* direction records the direction handed to convertDirectory.
CallCliDirectory ==
  /\ pc = "start"
  /\ pc' = "done"
  /\ op' = "cliDirectory"
  /\ direction' = CliDirection(reverse, forceFormat, dryRun)
  /\ \E done \in {convertDirectory(fs, sourcePath, destinationPath,
                                    CliDirection(reverse, forceFormat, dryRun), forceFormat,
                                    dryRun)} :
       /\ out' = CliExit(done)
       /\ results' = done.results
       /\ fs' = done.fs
  /\ UNCHANGED <<inFm, inText, inData, forceFormat, filePath, mapperRun, back, reparsed,
                 sourcePath, destinationPath, dryRun, reverse>>

CliNext == CallCliDirectory

SpecCli == CliInit /\ [][CliNext]_vars

\* The files a list of results reports as converted, or as to be converted.
ConvertedFiles(rs) == {rs[i].sourcePath : i \in {j \in 1..Len(rs) : IsConverted(rs[j])}}

\* The results of the run without --dry-run, with the same other flags.
RealResults ==
  convertDirectory(fs, sourcePath, destinationPath,
                   CliDirection(reverse, forceFormat, FALSE), forceFormat, FALSE).results

\* C30 as the specification states it: a dry run in directory mode hands
\* convertDirectory the direction the run without --dry-run would hand it, and
\* the files it reports as to be converted are the files that run converts.
C30_AsStated ==
  [][(pc = "start" /\ op' = "cliDirectory" /\ dryRun) =>
       /\ direction' = CliDirection(reverse, forceFormat, FALSE)
       /\ ConvertedFiles(results') = ConvertedFiles(RealResults)]_vars

====
